---- MODULE Spec2Model ----
(***************************************************************************)
(* Youth-group backend (youthGroupFastAPI.py, graphql_schema.py,           *)
(* backend/database.py): the relational tables, the document-store         *)
(* eventNotes collection, the per-event ephemeral check-in keys and the    *)
(* request handlers that read and write them.  One action is one request   *)
(* handler run to completion, except the role-creation handlers, which are *)
(* split at the point where another request's commit can fall between the  *)
(* handler's reads and its INSERT.                                         *)
(***************************************************************************)
EXTENDS Integers, FiniteSets, Sequences, TLC

\* ---------------------------------------------------------------- bounds
MaxPerson == 2       \* Person rows ever created (AUTO_INCREMENT ids 1..MaxPerson)
MaxEvent == 1        \* Event rows ever created (AUTO_INCREMENT ids 1..MaxEvent)
MaxReg == 3          \* largest Registration id
MaxRole == 2         \* largest Attendee / Leader / Volunteer id
MaxAttendance == 2   \* AttendanceRecord rows ever inserted
MaxNote == 1         \* eventNotes documents ever inserted
MaxGroup == 3        \* largest SmallGroup id
MaxMember == 2       \* largest SmallGroupMember / SmallGroupLeader id
MaxInFlight == 2     \* role-creation requests between their reads and their INSERT
MaxShapes == 1       \* Registration rows in the specification of registration shapes
MaxType == 2         \* eventTypes documents ever inserted

NULL == 0            \* SQL NULL / Python None; every real id is >= 1

PersonIds == 1..MaxPerson
EventIds == 1..MaxEvent
RoleIds == 1..MaxRole
GroupIds == 1..MaxGroup
Times == {"t1", "t2"}   \* values of datetime.utcnow().isoformat()
NoTime == "none"        \* HASH field absent (timestamps.get(...) returns None)
TypeNames == {"retreat", "camp"}   \* values of the event_type field
NoName == ""            \* a request body without an event_type field

VARIABLES
    Person,            \* ids of the rows of table Person
    personSeq,         \* AUTO_INCREMENT counter of Person
    Event,             \* ids of the rows of table Event
    eventSeq,          \* AUTO_INCREMENT counter of Event
    Registration,      \* rows [id, eventId, attendeeId, leaderId, volunteerId]
    hasVolunteerID,    \* the Registration table has the optional VolunteerID column
    Attendee,          \* rows [id, personId]
    Leader,            \* rows [id, personId]
    Volunteer,         \* rows [id, personId]
    SmallGroup,        \* ids of the rows of table SmallGroup
    SmallGroupMember,  \* rows [id, attendeeId, smallGroupId]
    SmallGroupLeader,  \* rows [id, leaderId, smallGroupId]
    AttendanceRecord,  \* rows [id, personId, eventId]
    attendanceSeq,     \* AUTO_INCREMENT counter of AttendanceRecord
    checkedIn,         \* Redis SET event:{id}:checkedIn, per event id
    checkInTimes,      \* Redis HASH event:{id}:checkInTimes, per event id
    redis_client,      \* the lazily created Redis client singleton: "none" | "ready"
    eventNotes,        \* documents [id, eventId] of collection eventNotes
    personNotes,       \* documents [id, personId] of collection personNotes
    noteSeq,           \* ObjectIds generated so far (unique across collections)
    eventTypes,        \* documents [id, event_type] of collection eventTypes
    typeSeq,           \* documents ever inserted into eventTypes
    roleReq,           \* role-creation requests between their reads and their INSERT
    resp               \* what the last finished request returned and did

relVars == <<Person, personSeq, Event, eventSeq, Registration, hasVolunteerID,
             Attendee, Leader, Volunteer, SmallGroup, SmallGroupMember,
             SmallGroupLeader, AttendanceRecord, attendanceSeq>>
redisVars == <<checkedIn, checkInTimes, redis_client>>
typeVars == <<eventTypes, typeSeq>>
mongoVars == <<eventNotes, personNotes, noteSeq, typeVars>>
vars == <<relVars, redisVars, mongoVars, roleReq, resp>>

\* ---------------------------------------------------------------- helpers
Ids(rows) == {r.id : r \in rows}

SetMax(S) == IF S = {} THEN 0 ELSE CHOOSE m \in S : \A x \in S : x <= m

\* The number of rows plus one in place of the largest id plus one.
NextId_Count(rows) == Cardinality(Ids(rows)) + 1

\* SELECT IFNULL(MAX(ID), 0) + 1 FROM <table>
NextId(rows) == SetMax(Ids(rows)) + 1

Abs(x) == IF x < 0 THEN -x ELSE x

\* Python truthiness of an optional id taken from a request body
Truthy(x) == x # NULL

\* The reply of a request: the fields a handler does not set keep these values.
Reply(op, status) ==
    [op |-> op, status |-> status, eventId |-> NULL, personId |-> NULL,
     id |-> NULL, eventFound |-> FALSE, checkInTime |-> NoTime,
     total |-> 0, attendees |-> 0, leaders |-> 0, volunteers |-> 0,
     liveCount |-> 0, students |-> {}, notesCount |-> 0, rate |-> 0,
     redisCalls |-> 0, mongoCalls |-> 0,
     redisFailed |-> FALSE, mongoFailed |-> FALSE,
     mysqlFailed |-> FALSE, people |-> {},
     connsHeld |-> 0, connsOut |-> 0, schemaMismatch |-> FALSE, notes |-> {}]

\* ---------------------------------------------------------------- Init
Init ==
    /\ Person = {} /\ personSeq = 0
    /\ Event = {} /\ eventSeq = 0
    /\ Registration = {}
    /\ hasVolunteerID \in BOOLEAN
    /\ Attendee = {} /\ Leader = {} /\ Volunteer = {}
    /\ SmallGroup = {} /\ SmallGroupMember = {} /\ SmallGroupLeader = {}
    /\ AttendanceRecord = {} /\ attendanceSeq = 0
    /\ checkedIn = [e \in EventIds |-> {}]
    /\ checkInTimes = [e \in EventIds |-> [p \in PersonIds |-> NoTime]]
    /\ redis_client = "none"
    /\ eventNotes = {} /\ personNotes = {} /\ noteSeq = 0
    /\ eventTypes = {} /\ typeSeq = 0
    /\ roleReq = {}
    /\ resp = Reply("none", 0)

\* ---------------------------------------------------------------- people
\* POST /people: INSERT (AUTO_INCREMENT id), commit, read the row back.
create_person ==
    /\ personSeq < MaxPerson
    /\ personSeq' = personSeq + 1
    /\ Person' = Person \cup {personSeq + 1}
    /\ resp' = [Reply("create_person", 201) EXCEPT !.personId = personSeq + 1]
    /\ UNCHANGED <<Event, eventSeq, Registration, hasVolunteerID, Attendee, Leader,
                   Volunteer, SmallGroup, SmallGroupMember, SmallGroupLeader,
                   AttendanceRecord, attendanceSeq, redisVars, mongoVars, roleReq>>

\* POST /people when one of its statements raises mysql.connector.Error: the
\* handler answers 500.  The commit stands between the INSERT and the SELECT that
\* reads the row back, so a failure of that SELECT leaves the row committed.
create_person_mysql_error(failed) ==
    /\ personSeq < MaxPerson
    /\ failed \in {"insert", "commit", "select"}
    /\ resp' = [Reply("create_person", 500) EXCEPT !.mysqlFailed = TRUE]
    /\ IF failed = "select"
         THEN /\ personSeq' = personSeq + 1
              /\ Person' = Person \cup {personSeq + 1}
         ELSE UNCHANGED <<Person, personSeq>>
    /\ UNCHANGED <<Event, eventSeq, Registration, hasVolunteerID, Attendee, Leader,
                   Volunteer, SmallGroup, SmallGroupMember, SmallGroupLeader,
                   AttendanceRecord, attendanceSeq, redisVars, mongoVars, roleReq>>

\* "except Exception as e: raise HTTPException(status_code=500, ...)" of the
\* GraphQL resolvers: every exception of the try block, the resolver's own
\* HTTPException(404) included, leaves as a 500.
ResolverExceptException(raised) == 500

\* GraphQL mutation deletePerson: the REST handler's statements inside
\* try / except Exception.
delete_person_resolver(person_id) ==
    /\ IF person_id \notin Person
         THEN /\ resp' = [Reply("delete_person_resolver", ResolverExceptException(404))
                            EXCEPT !.personId = person_id]
              /\ UNCHANGED Person
         ELSE /\ Person' = Person \ {person_id}
              /\ resp' = [Reply("delete_person_resolver", 200)
                            EXCEPT !.personId = person_id]
    /\ UNCHANGED <<personSeq, Event, eventSeq, Registration, hasVolunteerID, Attendee,
                   Leader, Volunteer, SmallGroup, SmallGroupMember, SmallGroupLeader,
                   AttendanceRecord, attendanceSeq, redisVars, mongoVars, roleReq>>

\* GET /search?query=...: the MySQL searches run inside their own
\* try / except mysql.connector.Error, which prints the error and goes on, so the
\* handler answers 200 with the lists found so far (none when the first SELECT
\* fails).  The query is one that matches every person.
search_all(mysql_fault) ==
    /\ resp' = [Reply("search_all", 200) EXCEPT
                  !.people = IF mysql_fault THEN {} ELSE Person,
                  !.mysqlFailed = mysql_fault]
    /\ UNCHANGED <<relVars, redisVars, mongoVars, roleReq>>

\* A handler of the shape
\*     try: cnx = db_pool.get_connection(); cursor.execute(...); cnx.close(); ...
\*     except ...: raise HTTPException(500)
\* with no finally clause: connsHeld is the largest number of pool connections
\* the request held at once, connsOut the number it had not returned when it
\* ended.  A failing get_connection() acquires nothing; a failing execute()
\* jumps over cnx.close().
UnguardedRead(op, failed) ==
    [Reply(op, IF failed = "none" THEN 200 ELSE 500) EXCEPT
       !.mysqlFailed = (failed # "none"),
       !.connsHeld = IF failed = "get_connection" THEN 0 ELSE 1,
       !.connsOut = IF failed = "execute" THEN 1 ELSE 0]

\* GET /events/by-type/{event_type}
get_events_by_type(failed) ==
    /\ failed \in {"none", "get_connection", "execute"}
    /\ resp' = UnguardedRead("get_events_by_type", failed)
    /\ UNCHANGED <<relVars, redisVars, mongoVars, roleReq>>

\* GraphQL query person(id): None (a success) when the row is absent.
get_person_by_id_resolver(person_id, failed) ==
    /\ failed \in {"none", "get_connection", "execute"}
    /\ resp' = [UnguardedRead("get_person_by_id_resolver", failed) EXCEPT
                  !.personId = person_id,
                  !.people = IF failed = "none" THEN {person_id} \cap Person ELSE {}]
    /\ UNCHANGED <<relVars, redisVars, mongoVars, roleReq>>

\* DELETE /people/{person_id}: 404 when absent, else DELETE the one Person row.
\* No other table and no Redis key is touched.
delete_person(person_id) ==
    /\ IF person_id \notin Person
         THEN /\ resp' = [Reply("delete_person", 404) EXCEPT !.personId = person_id]
              /\ UNCHANGED Person
         ELSE /\ Person' = Person \ {person_id}
              /\ resp' = [Reply("delete_person", 200) EXCEPT !.personId = person_id]
    /\ UNCHANGED <<personSeq, Event, eventSeq, Registration, hasVolunteerID, Attendee,
                   Leader, Volunteer, SmallGroup, SmallGroupMember, SmallGroupLeader,
                   AttendanceRecord, attendanceSeq, redisVars, mongoVars, roleReq>>

\* ---------------------------------------------------------------- events
\* POST /events: INSERT (AUTO_INCREMENT id), commit, read the row back.
create_event ==
    /\ eventSeq < MaxEvent
    /\ eventSeq' = eventSeq + 1
    /\ Event' = Event \cup {eventSeq + 1}
    /\ resp' = [Reply("create_event", 201) EXCEPT !.eventId = eventSeq + 1]
    /\ UNCHANGED <<Person, personSeq, Registration, hasVolunteerID, Attendee, Leader,
                   Volunteer, SmallGroup, SmallGroupMember, SmallGroupLeader,
                   AttendanceRecord, attendanceSeq, redisVars, mongoVars, roleReq>>

\* ---------------------------------------------------------------- Redis gateway
\* get_redis_conn() -> get_redis_client(): the client is created on first use; when
\* the first ping fails the except branch calls exit(), which raises SystemExit.
\* SystemExit is not an Exception, so no handler of a request catches it.
GetRedisConn(fault) ==
    IF redis_client = "none" /\ fault = "ping" THEN "exit" ELSE "ready"

\* The module global after exit(): it was assigned before the ping, so a process
\* that outlives the SystemExit keeps the client ("ready"), and a restarted
\* process has none.
AfterExit == {"none", "ready"}

\* HDEL times_key personId
\* DEL of the whole hash in place of HDEL of one field.
HDel_WholeHash(times, personId) == [p \in DOMAIN times |-> NoTime]

\* HDEL left out: the timestamp stays in the hash.
HDel_Skipped(times, personId) == times

HDel(times, personId) == [times EXCEPT ![personId] = NoTime]

\* HSETNX in place of HSET: a field that is present keeps its value.
HSet_IfAbsent(times, personId, t) ==
    IF times[personId] = NoTime THEN [times EXCEPT ![personId] = t] ELSE times

\* HSET times_key personId now_utc_iso
HSet(times, personId, t) == [times EXCEPT ![personId] = t]

\* ---------------------------------------------------------------- registrations
\* POST /events/{event_id}/registrations.  The validation rejects a body with no
\* role id and a body without emergencyContact; nothing else is checked.
RegisterValidation(attendee_id, leader_id, volunteer_id, emergency_contact) ==
    IF ~Truthy(attendee_id) /\ ~Truthy(leader_id) /\ ~Truthy(volunteer_id) THEN 400
    ELSE IF emergency_contact = "" THEN 400
    ELSE 200

register_for_event(event_id, attendee_id, leader_id, volunteer_id, emergency_contact) ==
    LET valid == RegisterValidation(attendee_id, leader_id, volunteer_id,
                                    emergency_contact)
        next_id == NextId(Registration)
        row == [id |-> next_id, eventId |-> event_id, attendeeId |-> attendee_id,
                leaderId |-> leader_id, volunteerId |-> volunteer_id]
    IN  /\ next_id <= MaxReg
        /\ IF valid # 200
             THEN /\ resp' = [Reply("register_for_event", valid)
                                EXCEPT !.eventId = event_id]
                  /\ UNCHANGED Registration
             ELSE IF Truthy(volunteer_id) /\ ~hasVolunteerID
             \* Unknown column 'VolunteerID' (1054): HTTPException(400), no commit
             THEN /\ resp' = [Reply("register_for_event", 400)
                                EXCEPT !.eventId = event_id, !.schemaMismatch = TRUE]
                  /\ UNCHANGED Registration
             ELSE /\ Registration' = Registration \cup {row}
                  /\ resp' = [Reply("register_for_event", 200)
                                EXCEPT !.eventId = event_id, !.id = next_id]
        /\ UNCHANGED <<Person, personSeq, Event, eventSeq, hasVolunteerID, Attendee,
                       Leader, Volunteer, SmallGroup, SmallGroupMember,
                       SmallGroupLeader, AttendanceRecord, attendanceSeq, redisVars,
                       mongoVars, roleReq>>

\* GraphQL mutation registerForEvent: no validation of the role ids at all; the
\* HTTPException(400) of the missing-column branch is caught by the outer
\* "except Exception" and becomes a 500.
register_for_event_resolver(event_id, attendeeId, leaderId, volunteerId) ==
    LET next_id == NextId(Registration)
        row == [id |-> next_id, eventId |-> event_id, attendeeId |-> attendeeId,
                leaderId |-> leaderId, volunteerId |-> volunteerId]
    IN  /\ next_id <= MaxReg
        /\ IF Truthy(volunteerId) /\ ~hasVolunteerID
             THEN /\ resp' = [Reply("register_for_event_resolver", 500)
                                EXCEPT !.eventId = event_id, !.schemaMismatch = TRUE]
                  /\ UNCHANGED Registration
             ELSE /\ Registration' = Registration \cup {row}
                  /\ resp' = [Reply("register_for_event_resolver", 200)
                                EXCEPT !.eventId = event_id, !.id = next_id]
        /\ UNCHANGED <<Person, personSeq, Event, eventSeq, hasVolunteerID, Attendee,
                       Leader, Volunteer, SmallGroup, SmallGroupMember,
                       SmallGroupLeader, AttendanceRecord, attendanceSeq, redisVars,
                       mongoVars, roleReq>>

\* ---------------------------------------------------------------- check-in / check-out
\* The commit moved behind the Redis calls: a Redis error leaves the INSERT
\* uncommitted.
CommitAttendance_AfterRedis(rows, record, fault) ==
    IF fault \in {"sadd", "hset"} THEN rows ELSE rows \cup {record}

\* INSERT INTO AttendanceRecord and "Commit the SQL transaction immediately":
\* the row is committed before SADD and HSET run, whatever they do afterwards.
CommitAttendance(rows, record, fault) == rows \cup {record}

\* POST /event/{eventId}/checkin/{personId}
checkin_person(eventId, personId, now_utc_iso, fault) ==
    LET conn == GetRedisConn(fault)
        base == [Reply("checkin_person", 200)
                   EXCEPT !.eventId = eventId, !.personId = personId]
        record == [id |-> attendanceSeq + 1, personId |-> personId,
                   eventId |-> eventId]
    IN  /\ attendanceSeq < MaxAttendance
        /\ fault \in {"none", "ping", "sadd", "hset"}
        /\ fault = "ping" => redis_client = "none"
        /\ IF conn = "exit"
             THEN /\ resp' = [base EXCEPT !.status = 0, !.redisFailed = TRUE]
                  /\ redis_client' \in AfterExit
                  /\ UNCHANGED <<AttendanceRecord, attendanceSeq, checkedIn,
                                 checkInTimes>>
             ELSE IF personId \notin Person
             THEN /\ resp' = [base EXCEPT !.status = 404]
                  /\ redis_client' = "ready"
                  /\ UNCHANGED <<AttendanceRecord, attendanceSeq, checkedIn,
                                 checkInTimes>>
             ELSE \* the INSERT is committed before Redis is written
                  /\ AttendanceRecord' = CommitAttendance(AttendanceRecord, record, fault)
                  /\ attendanceSeq' = attendanceSeq + 1
                  /\ redis_client' = "ready"
                  /\ IF fault = "sadd"
                       THEN /\ resp' = [base EXCEPT !.status = 500, !.redisCalls = 1,
                                                    !.redisFailed = TRUE]
                            /\ UNCHANGED <<checkedIn, checkInTimes>>
                       ELSE /\ checkedIn' = [checkedIn EXCEPT
                                               ![eventId] = @ \cup {personId}]
                            /\ IF fault = "hset"
                                 THEN /\ resp' = [base EXCEPT !.status = 500,
                                                    !.redisCalls = 2,
                                                    !.redisFailed = TRUE]
                                      /\ UNCHANGED checkInTimes
                                 ELSE /\ checkInTimes' = [checkInTimes EXCEPT
                                            ![eventId] = HSet(@, personId, now_utc_iso)]
                                      /\ resp' = [base EXCEPT !.redisCalls = 2,
                                                    !.checkInTime = now_utc_iso]
        /\ UNCHANGED <<Person, personSeq, Event, eventSeq, Registration, hasVolunteerID,
                       Attendee, Leader, Volunteer, SmallGroup, SmallGroupMember,
                       SmallGroupLeader, mongoVars, roleReq>>

\* DELETE /event/{eventId}/checkin/{personId}: SREM, then HDEL, then the 404 test on
\* the SREM count.  No relational statement.
checkout_person(eventId, personId, fault) ==
    LET conn == GetRedisConn(fault)
        base == [Reply("checkout_person", 200)
                   EXCEPT !.eventId = eventId, !.personId = personId]
        removed == IF personId \in checkedIn[eventId] THEN 1 ELSE 0
    IN  /\ fault \in {"none", "ping", "srem", "hdel"}
        /\ fault = "ping" => redis_client = "none"
        /\ IF conn = "exit"
             THEN /\ resp' = [base EXCEPT !.status = 0, !.redisFailed = TRUE]
                  /\ redis_client' \in AfterExit
                  /\ UNCHANGED <<checkedIn, checkInTimes>>
             ELSE /\ redis_client' = "ready"
                  /\ IF fault = "srem"
                       THEN /\ resp' = [base EXCEPT !.status = 500, !.redisCalls = 1,
                                                    !.redisFailed = TRUE]
                            /\ UNCHANGED <<checkedIn, checkInTimes>>
                       ELSE /\ checkedIn' = [checkedIn EXCEPT
                                               ![eventId] = @ \ {personId}]
                            /\ IF fault = "hdel"
                                 THEN /\ resp' = [base EXCEPT !.status = 500,
                                                    !.redisCalls = 2,
                                                    !.redisFailed = TRUE]
                                      /\ UNCHANGED checkInTimes
                                 ELSE /\ checkInTimes' = [checkInTimes EXCEPT
                                            ![eventId] = HDel(@, personId)]
                                      /\ resp' = [base EXCEPT
                                            !.status = IF removed = 0 THEN 404 ELSE 200,
                                            !.redisCalls = 2]
        /\ UNCHANGED <<relVars, mongoVars, roleReq>>

\* Check-in and check-out as concurrent requests see them: each Redis command is
\* atomic, and the commands of other requests can run between the two commands
\* of one handler.  A request between its two commands is held in roleReq.
\* checkin_person up to and including SADD (Redis answering).
checkin_person_sadd(eventId, personId, now_utc_iso) ==
    LET record == [id |-> attendanceSeq + 1, personId |-> personId,
                   eventId |-> eventId]
        req == [kind |-> "checkin_person", eventId |-> eventId,
                personId |-> personId, now_utc_iso |-> now_utc_iso, removed |-> 0]
    IN  /\ attendanceSeq < MaxAttendance
        /\ Cardinality(roleReq) < MaxInFlight
        /\ req \notin roleReq
        /\ redis_client' = "ready"
        /\ IF personId \notin Person
             THEN /\ resp' = [Reply("checkin_person", 404)
                                EXCEPT !.eventId = eventId, !.personId = personId]
                  /\ UNCHANGED <<AttendanceRecord, attendanceSeq, checkedIn, roleReq>>
             ELSE /\ AttendanceRecord' =
                       CommitAttendance(AttendanceRecord, record, "none")
                  /\ attendanceSeq' = attendanceSeq + 1
                  /\ checkedIn' = [checkedIn EXCEPT ![eventId] = @ \cup {personId}]
                  /\ roleReq' = roleReq \cup {req}
                  /\ UNCHANGED resp
        /\ UNCHANGED <<Person, personSeq, Event, eventSeq, Registration, hasVolunteerID,
                       Attendee, Leader, Volunteer, SmallGroup, SmallGroupMember,
                       SmallGroupLeader, checkInTimes, mongoVars>>

\* checkin_person from HSET to its reply.
checkin_person_hset(req) ==
    /\ req \in roleReq
    /\ req.kind = "checkin_person"
    /\ roleReq' = roleReq \ {req}
    /\ checkInTimes' = [checkInTimes EXCEPT
                          ![req.eventId] = HSet(@, req.personId, req.now_utc_iso)]
    /\ resp' = [Reply("checkin_person", 200) EXCEPT
                  !.eventId = req.eventId, !.personId = req.personId,
                  !.redisCalls = 2, !.checkInTime = req.now_utc_iso]
    /\ UNCHANGED <<relVars, checkedIn, redis_client, mongoVars>>

\* checkout_person up to and including SREM (Redis answering); removed is the
\* count SREM returned.
checkout_person_srem(eventId, personId) ==
    LET req == [kind |-> "checkout_person", eventId |-> eventId,
                personId |-> personId, now_utc_iso |-> NoTime,
                removed |-> IF personId \in checkedIn[eventId] THEN 1 ELSE 0]
    IN  /\ Cardinality(roleReq) < MaxInFlight
        /\ req \notin roleReq
        /\ redis_client' = "ready"
        /\ checkedIn' = [checkedIn EXCEPT ![eventId] = @ \ {personId}]
        /\ roleReq' = roleReq \cup {req}
        /\ UNCHANGED <<relVars, checkInTimes, mongoVars, resp>>

\* checkout_person from HDEL to its reply.
checkout_person_hdel(req) ==
    /\ req \in roleReq
    /\ req.kind = "checkout_person"
    /\ roleReq' = roleReq \ {req}
    /\ checkInTimes' = [checkInTimes EXCEPT
                          ![req.eventId] = HDel(@, req.personId)]
    /\ resp' = [Reply("checkout_person", IF req.removed = 0 THEN 404 ELSE 200)
                  EXCEPT !.eventId = req.eventId, !.personId = req.personId,
                         !.redisCalls = 2]
    /\ UNCHANGED <<relVars, checkedIn, redis_client, mongoVars>>

\* GET /event/{eventId}/live-checkins: SMEMBERS; an empty set raises
\* HTTPException(404), which no except clause of the handler catches; else
\* HGETALL and SELECT ... FROM Person WHERE ID IN (...), and count = len(students).
get_live_checkins(eventId, fault) ==
    LET conn == GetRedisConn(fault)
        base == [Reply("get_live_checkins", 200) EXCEPT !.eventId = eventId]
        student_ids == checkedIn[eventId]
        people == student_ids \cap Person
    IN  /\ fault \in {"none", "ping", "smembers", "hgetall"}
        /\ fault = "ping" => redis_client = "none"
        /\ IF conn = "exit"
             THEN /\ resp' = [base EXCEPT !.status = 0, !.redisFailed = TRUE]
                  /\ redis_client' \in AfterExit
             ELSE /\ redis_client' = "ready"
                  /\ resp' =
                       IF fault = "smembers"
                       THEN [base EXCEPT !.status = 500, !.redisCalls = 1,
                                         !.redisFailed = TRUE]
                       ELSE IF student_ids = {}
                       THEN [base EXCEPT !.status = 404, !.redisCalls = 1]
                       ELSE IF fault = "hgetall"
                       THEN [base EXCEPT !.status = 500, !.redisCalls = 2,
                                         !.redisFailed = TRUE]
                       ELSE [base EXCEPT
                               !.redisCalls = 2,
                               !.liveCount = Cardinality(people),
                               !.students =
                                  {[personId |-> p,
                                    checkInTime |-> checkInTimes[eventId][p]]
                                   : p \in people}]
        /\ UNCHANGED <<relVars, checkedIn, checkInTimes, mongoVars, roleReq>>

\* ---------------------------------------------------------------- event notes
NotesOf(event_id) == {n \in eventNotes : n.eventId = event_id}

\* POST /events/{event_id}/notes: 400 without a "notes" field, else insert_one.
\* The event id is not looked up.  A driver error is not handled: 500.
add_event_notes(event_id, has_notes, fault) ==
    /\ noteSeq < MaxNote
    /\ IF ~has_notes
         THEN /\ resp' = [Reply("add_event_notes", 400) EXCEPT !.eventId = event_id]
              /\ UNCHANGED mongoVars
         ELSE IF fault
         THEN /\ resp' = [Reply("add_event_notes", 500)
                            EXCEPT !.eventId = event_id, !.mongoCalls = 1,
                                   !.mongoFailed = TRUE]
              /\ UNCHANGED mongoVars
         ELSE /\ eventNotes' = eventNotes \cup
                                 {[id |-> noteSeq + 1, eventId |-> event_id]}
              /\ noteSeq' = noteSeq + 1
              /\ UNCHANGED <<personNotes, typeVars>>
              /\ resp' = [Reply("add_event_notes", 200)
                            EXCEPT !.eventId = event_id, !.id = noteSeq + 1,
                                   !.mongoCalls = 1]
    /\ UNCHANGED <<relVars, redisVars, roleReq>>

\* GET /events/{event_id}/notes: find({"eventId": event_id})
get_event_notes(event_id) ==
    /\ resp' = [Reply("get_event_notes", 200) EXCEPT
                  !.eventId = event_id,
                  !.notes = Ids(NotesOf(event_id)),
                  !.notesCount = Cardinality(NotesOf(event_id))]
    /\ UNCHANGED <<relVars, redisVars, mongoVars, roleReq>>

\* POST /persons/{person_id}/notes: 400 without a "text" field, else insert_one
\* into personNotes.
add_note_to_person(person_id, has_text) ==
    /\ noteSeq < MaxNote
    /\ IF ~has_text
         THEN /\ resp' = [Reply("add_note_to_person", 400)
                            EXCEPT !.personId = person_id]
              /\ UNCHANGED mongoVars
         ELSE /\ personNotes' = personNotes \cup
                                  {[id |-> noteSeq + 1, personId |-> person_id]}
              /\ noteSeq' = noteSeq + 1
              /\ UNCHANGED <<eventNotes, typeVars>>
              /\ resp' = [Reply("add_note_to_person", 200)
                            EXCEPT !.personId = person_id, !.id = noteSeq + 1,
                                   !.mongoCalls = 1]
    /\ UNCHANGED <<relVars, redisVars, roleReq>>

\* def delete_note_by_id: delete_one on personNotes, 404 when deleted_count is 0.
delete_note_by_id(note_id) ==
    /\ personNotes' = {n \in personNotes : n.id # note_id}
    /\ resp' = [Reply("delete_note_by_id",
                      IF note_id \in Ids(personNotes) THEN 200 ELSE 404)
                  EXCEPT !.id = note_id, !.mongoCalls = 1]
    /\ UNCHANGED <<relVars, redisVars, eventNotes, noteSeq, typeVars, roleReq>>

\* def delete_event_note: delete_one on eventNotes, 404 when deleted_count is 0.
delete_event_note(note_id) ==
    /\ eventNotes' = {n \in eventNotes : n.id # note_id}
    /\ resp' = [Reply("delete_event_note",
                      IF note_id \in Ids(eventNotes) THEN 200 ELSE 404)
                  EXCEPT !.id = note_id, !.mongoCalls = 1]
    /\ UNCHANGED <<relVars, redisVars, personNotes, noteSeq, typeVars, roleReq>>

\* The handlers registered with @app.delete("/notes/{note_id}"), in the order of
\* their decorators in the file.
DeleteNotesRoutes == <<"delete_note_by_id", "delete_event_note">>

\* The router tries its routes in the order of registration and calls the first
\* whose method and path match; both routes match the same requests.
MatchedRoute(routes) == Head(routes)

\* DELETE /notes/{note_id} as the application serves it.
http_delete_notes(note_id) ==
    IF MatchedRoute(DeleteNotesRoutes) = "delete_note_by_id"
    THEN delete_note_by_id(note_id)
    ELSE delete_event_note(note_id)

\* ---------------------------------------------------------------- event types
TypesNamed(event_type) == {d \in eventTypes : d.event_type = event_type}

\* POST /event-types: 400 without an event_type field, 400 when find_one finds a
\* document of that name, else insert_one.
create_event_type(event_type) ==
    /\ typeSeq < MaxType
    /\ IF event_type = NoName \/ TypesNamed(event_type) # {}
         THEN /\ resp' = Reply("create_event_type", 400)
              /\ UNCHANGED typeVars
         ELSE /\ eventTypes' = eventTypes \cup
                                 {[id |-> typeSeq + 1, event_type |-> event_type]}
              /\ typeSeq' = typeSeq + 1
              /\ resp' = [Reply("create_event_type", 200)
                            EXCEPT !.id = typeSeq + 1, !.mongoCalls = 3]
    /\ UNCHANGED <<relVars, redisVars, eventNotes, personNotes, noteSeq, roleReq>>

\* PATCH /event-types/{event_type}: update_one({"event_type": event_type},
\* {"$set": body}) on the first matching document, 404 when none matched.  The
\* body is not inspected: an event_type field in it renames the document.  The
\* document is then read back by the old name; when the rename leaves no
\* document of that name, find_one returns None and updated_doc["_id"] raises,
\* which "except Exception" turns into a 500 after the update was stored.
update_event_type(event_type, new_name) ==
    /\ IF TypesNamed(event_type) = {}
         THEN /\ resp' = [Reply("update_event_type", 404) EXCEPT !.mongoCalls = 1]
              /\ UNCHANGED typeVars
         ELSE \E d \in TypesNamed(event_type) :
              /\ eventTypes' =
                   IF new_name = NoName THEN eventTypes
                   ELSE (eventTypes \ {d}) \cup {[d EXCEPT !.event_type = new_name]}
              /\ UNCHANGED typeSeq
              /\ resp' = [Reply("update_event_type",
                                IF {x \in eventTypes' : x.event_type = event_type} = {}
                                THEN 500 ELSE 200)
                            EXCEPT !.id = d.id, !.mongoCalls = 2]
    /\ UNCHANGED <<relVars, redisVars, eventNotes, personNotes, noteSeq, roleReq>>

\* DELETE /event-types/{event_type}: delete_one on the first matching document,
\* 404 when none was deleted.
delete_event_type(event_type) ==
    /\ IF TypesNamed(event_type) = {}
         THEN /\ resp' = [Reply("delete_event_type", 404) EXCEPT !.mongoCalls = 1]
              /\ UNCHANGED typeVars
         ELSE \E d \in TypesNamed(event_type) :
              /\ eventTypes' = eventTypes \ {d}
              /\ UNCHANGED typeSeq
              /\ resp' = [Reply("delete_event_type", 200)
                            EXCEPT !.id = d.id, !.mongoCalls = 1]
    /\ UNCHANGED <<relVars, redisVars, eventNotes, personNotes, noteSeq, roleReq>>

\* ---------------------------------------------------------------- delete_event
\* The hash key left in place.
DeleteHash_Skipped(times) == times

\* r.delete(times_key): no field of the hash remains.
DeleteHash(times) == [p \in DOMAIN times |-> NoTime]


\* DELETE /events/{event_id}.  Statement order of the handler: SELECT Event,
\* DELETE Registration, DELETE AttendanceRecord, eventNotes.delete_many (errors
\* absorbed), Redis DELETE of both keys (errors absorbed), DELETE Event, commit.
\* SystemExit from the first Redis connection leaves the transaction uncommitted,
\* after delete_many has already run.
delete_event(event_id, mongo_fault, redis_fault) ==
    LET conn == GetRedisConn(redis_fault)
        base == [Reply("delete_event", 200) EXCEPT !.eventId = event_id]
        notes_after == IF mongo_fault THEN eventNotes
                       ELSE eventNotes \ NotesOf(event_id)
    IN  /\ redis_fault \in {"none", "ping", "delete_set", "delete_hash"}
        /\ redis_fault = "ping" => redis_client = "none"
        /\ IF event_id \notin Event
             THEN /\ resp' = [base EXCEPT !.status = 404]
                  /\ UNCHANGED <<Event, Registration, AttendanceRecord, eventNotes,
                                 redisVars>>
             ELSE /\ eventNotes' = notes_after
                  /\ IF conn = "exit"
                       THEN /\ resp' = [base EXCEPT !.status = 0, !.eventFound = TRUE,
                                          !.mongoCalls = 1, !.mongoFailed = mongo_fault,
                                          !.redisFailed = TRUE]
                            /\ redis_client' \in AfterExit
                            /\ UNCHANGED <<Event, Registration, AttendanceRecord,
                                           checkedIn, checkInTimes>>
                       ELSE /\ redis_client' = "ready"
                            /\ checkedIn' =
                                 IF redis_fault = "delete_set" THEN checkedIn
                                 ELSE [checkedIn EXCEPT ![event_id] = {}]
                            /\ checkInTimes' =
                                 IF redis_fault \in {"delete_set", "delete_hash"}
                                 THEN checkInTimes
                                 ELSE [checkInTimes EXCEPT
                                         ![event_id] = DeleteHash(@)]
                            /\ Registration' =
                                 {r \in Registration : r.eventId # event_id}
                            /\ AttendanceRecord' =
                                 {a \in AttendanceRecord : a.eventId # event_id}
                            /\ Event' = Event \ {event_id}
                            /\ resp' = [base EXCEPT !.eventFound = TRUE,
                                          !.mongoCalls = 1, !.mongoFailed = mongo_fault,
                                          !.redisCalls =
                                             IF redis_fault = "delete_set" THEN 1 ELSE 2,
                                          !.redisFailed = (redis_fault # "none")]
        /\ UNCHANGED <<Person, personSeq, eventSeq, hasVolunteerID, Attendee, Leader,
                       Volunteer, SmallGroup, SmallGroupMember, SmallGroupLeader,
                       attendanceSeq, personNotes, noteSeq, typeVars,
                       roleReq>>

\* DELETE /events/{event_id} when one of its relational statements raises
\* mysql.connector.Error (Redis and MongoDB answering).  A failure of the SELECT
\* or of DELETE FROM Registration ends the request before the other stores are
\* touched.  A failure of DELETE FROM AttendanceRecord is passed over ("Table
\* might not exist, ignore error") and the request goes on to commit.  A failure
\* of DELETE FROM Event or of the commit comes after delete_many and after both
\* Redis deletes, and rolls the relational deletes back.
delete_event_mysql_error(event_id, failed) ==
    LET base == [Reply("delete_event", 500)
                   EXCEPT !.eventId = event_id, !.mysqlFailed = TRUE]
    IN  /\ failed \in {"select_event", "delete_registration", "delete_attendance",
                       "delete_event", "commit"}
        /\ failed # "select_event" => event_id \in Event
        /\ redis_client = "ready"
        /\ IF failed \in {"select_event", "delete_registration"}
             THEN /\ resp' = base
                  /\ UNCHANGED <<Event, Registration, AttendanceRecord, eventNotes,
                                 checkedIn, checkInTimes>>
             ELSE /\ eventNotes' = eventNotes \ NotesOf(event_id)
                  /\ checkedIn' = [checkedIn EXCEPT ![event_id] = {}]
                  /\ checkInTimes' = [checkInTimes EXCEPT ![event_id] = DeleteHash(@)]
                  /\ IF failed = "delete_attendance"
                       THEN /\ Registration' =
                                 {r \in Registration : r.eventId # event_id}
                            /\ Event' = Event \ {event_id}
                            /\ resp' = [base EXCEPT !.status = 200,
                                          !.eventFound = TRUE, !.mongoCalls = 1,
                                          !.redisCalls = 2]
                       ELSE /\ resp' = [base EXCEPT !.eventFound = TRUE,
                                          !.mongoCalls = 1, !.redisCalls = 2]
                            /\ UNCHANGED <<Event, Registration>>
                  /\ UNCHANGED AttendanceRecord
        /\ UNCHANGED <<Person, personSeq, eventSeq, hasVolunteerID, Attendee, Leader,
                       Volunteer, SmallGroup, SmallGroupMember, SmallGroupLeader,
                       attendanceSeq, personNotes, noteSeq, typeVars,
                       redis_client, roleReq>>

\* ---------------------------------------------------------------- comprehensive summary
\* The PersonID of the role row with the given id (LEFT JOIN <role> ON R.<x>ID = <role>.ID)
PersonOfRole(table, role_id) == {x.personId : x \in {y \in table : y.id = role_id}}

\* LEFT JOIN Person P ON (A.PersonID = P.ID OR L.PersonID = P.ID OR V.PersonID = P.ID);
\* the fallback query, used when the VolunteerID column is missing, has no V.
JoinedPersons(r) ==
    (PersonOfRole(Attendee, r.attendeeId) \cup PersonOfRole(Leader, r.leaderId) \cup
     (IF hasVolunteerID THEN PersonOfRole(Volunteer, r.volunteerId) ELSE {}))
    \cap Person

\* The rows cursor.fetchall() returns for the registration query of one event: one
\* row per (registration, matching person), or one row with a NULL person.
RegistrationRows(event_id) ==
    UNION {
        LET row(p) == [id |-> r.id, attendeeId |-> r.attendeeId,
                       leaderId |-> r.leaderId,
                       volunteerId |-> IF hasVolunteerID THEN r.volunteerId ELSE NULL,
                       personId |-> p]
        IN  IF JoinedPersons(r) = {} THEN {row(NULL)}
            ELSE {row(p) : p \in JoinedPersons(r)}
        : r \in {x \in Registration : x.eventId = event_id} }

\* GET /events/{event_id}/registrations: the query with R.VolunteerID and the
\* join of Volunteer; when it raises mysql.connector.Error (the column is
\* missing), the fallback query with NULL AS volunteerId and no join of
\* Volunteer.  The event id is not looked up.
get_registrations_for_event(event_id) ==
    LET rows == RegistrationRows(event_id)
    IN  /\ resp' = [Reply("get_registrations_for_event", 200) EXCEPT
                      !.eventId = event_id,
                      !.total = Cardinality(rows),
                      !.attendees = Cardinality({r \in rows : Truthy(r.attendeeId)}),
                      !.leaders = Cardinality({r \in rows : Truthy(r.leaderId)}),
                      !.volunteers = Cardinality({r \in rows : Truthy(r.volunteerId)}),
                      !.schemaMismatch = ~hasVolunteerID]
        /\ UNCHANGED <<relVars, redisVars, mongoVars, roleReq>>

\* Truncation in place of rounding.
RoundHalfEven_Truncating(num, den) == num \div den

\* round(x, 2) of x = num / den * 100, in hundredths of a percent: to nearest, a
\* tie to the even hundredth (no tie exists for den < 32).
RoundHalfEven(num, den) ==
    LET q == num \div den
        r == num % den
    IN  IF 2 * r < den THEN q
        ELSE IF 2 * r > den THEN q + 1
        ELSE IF q % 2 = 0 THEN q ELSE q + 1

\* round((checkedInCount / len(registrations) * 100) if registrations else 0, 2),
\* in hundredths of a percent
AttendanceRate(checkedInCount, totalRegistered) ==
    IF totalRegistered = 0 THEN 0
    ELSE RoundHalfEven(checkedInCount * 10000, totalRegistered)

\* The Redis section of the summary on the members and the hash it finds:
\* SMEMBERS, then (when the set is not empty) HGETALL and
\* SELECT ... FROM Person WHERE ID IN (...).  check_in_data is only assigned
\* after every call has succeeded; any exception leaves it at zero.
CheckInData(student_ids, timestamps, fault) ==
    LET checked_in_people == student_ids \cap Person
    IN  IF fault = "smembers"
        THEN [count |-> 0, students |-> {}, calls |-> 1, failed |-> TRUE]
        ELSE IF student_ids = {}
        THEN [count |-> 0, students |-> {}, calls |-> 1, failed |-> FALSE]
        ELSE IF fault = "hgetall"
        THEN [count |-> 0, students |-> {}, calls |-> 2, failed |-> TRUE]
        ELSE [count |-> Cardinality(checked_in_people),
              students |-> {[personId |-> p, checkInTime |-> timestamps[p]]
                            : p \in checked_in_people},
              calls |-> 2, failed |-> FALSE]

\* The members read before a failing HGETALL are reported.
LiveCheckInData_Partial(event_id, fault) ==
    IF fault = "hgetall" /\ checkedIn[event_id] # {}
    THEN [count |-> Cardinality(checkedIn[event_id] \cap Person),
          students |-> {[personId |-> p, checkInTime |-> NoTime]
                        : p \in checkedIn[event_id] \cap Person},
          calls |-> 2, failed |-> TRUE]
    ELSE CheckInData(checkedIn[event_id], checkInTimes[event_id], fault)

\* The Redis section of the summary of one event.
LiveCheckInData(event_id, fault) ==
    CheckInData(checkedIn[event_id], checkInTimes[event_id], fault)

\* The notes found before the failure are kept instead of discarded.
EventNotesData_Partial(event_id, fault) == NotesOf(event_id)

\* The MongoDB section of the summary: find({"eventId": event_id}); any exception
\* leaves event_notes empty.
EventNotesData(event_id, fault) == IF fault THEN {} ELSE NotesOf(event_id)

\* Pool connections the summary holds at once: cnx from its first statement to
\* its finally clause, and cnx2 ("Need second connection because first one is
\* still in use") once SMEMBERS has returned ids and HGETALL has answered.
SummaryConnections(event_id, fault) ==
    IF fault \notin {"smembers", "hgetall"} /\ checkedIn[event_id] # {} THEN 2 ELSE 1

\* "except Exception as e: raise HTTPException(status_code=500, ...)": the last
\* handler of the summary's try block.  HTTPException is an Exception, so the 404
\* raised inside the block for a missing event reaches it as well.
SummaryExceptException(raised) == 500

\* GET /events/{event_id}/comprehensive
get_comprehensive_event_summary(event_id, redis_fault, mongo_fault) ==
    LET base == [Reply("get_comprehensive_event_summary", 200)
                   EXCEPT !.eventId = event_id]
        registrations == RegistrationRows(event_id)
        attendee_count == Cardinality({r \in registrations : Truthy(r.attendeeId)})
        leader_count == Cardinality({r \in registrations : Truthy(r.leaderId)})
        volunteer_count == Cardinality({r \in registrations : Truthy(r.volunteerId)})
        conn == GetRedisConn(redis_fault)
        check_in_data == LiveCheckInData(event_id, redis_fault)
        event_notes == EventNotesData(event_id, mongo_fault)
    IN  /\ redis_fault \in {"none", "ping", "smembers", "hgetall"}
        /\ redis_fault = "ping" => redis_client = "none"
        /\ IF event_id \notin Event
             THEN /\ resp' = [base EXCEPT !.status = SummaryExceptException(404),
                                !.connsHeld = 1]
                  /\ UNCHANGED redis_client
             ELSE IF conn = "exit"
             THEN /\ resp' = [base EXCEPT !.status = 0, !.eventFound = TRUE,
                                !.redisFailed = TRUE, !.connsHeld = 1]
                  /\ redis_client' \in AfterExit
             ELSE /\ redis_client' = "ready"
                  /\ resp' = [base EXCEPT
                        !.eventFound = TRUE,
                        !.connsHeld = SummaryConnections(event_id, redis_fault),
                        !.schemaMismatch = ~hasVolunteerID,
                        !.total = Cardinality(registrations),
                        !.attendees = attendee_count,
                        !.leaders = leader_count,
                        !.volunteers = volunteer_count,
                        !.liveCount = check_in_data.count,
                        !.students = check_in_data.students,
                        !.notesCount = Cardinality(event_notes),
                        !.rate = AttendanceRate(check_in_data.count,
                                                Cardinality(registrations)),
                        !.redisCalls = check_in_data.calls,
                        !.redisFailed = check_in_data.failed,
                        !.mongoCalls = 1,
                        !.mongoFailed = mongo_fault]
        /\ UNCHANGED <<relVars, checkedIn, checkInTimes, mongoVars, roleReq>>

\* GET /events/{event_id}/comprehensive when a relational statement raises
\* mysql.connector.Error (Redis and MongoDB answering).  The SELECT of the event
\* and the registration query (its fallback failing as well) reach
\* "except mysql.connector.Error" and answer 500.  The SELECT ... FROM Person of
\* the check-in section runs inside that section's try block, whose
\* "except Exception" prints the error and goes on with the zeroed check_in_data.
get_comprehensive_event_summary_mysql_error(event_id, failed) ==
    LET base == [Reply("get_comprehensive_event_summary", 500)
                   EXCEPT !.eventId = event_id, !.mysqlFailed = TRUE]
        registrations == RegistrationRows(event_id)
        event_notes == EventNotesData(event_id, FALSE)
    IN  /\ failed \in {"select_event", "select_registrations", "select_people"}
        /\ failed # "select_event" => event_id \in Event
        /\ failed = "select_people" => checkedIn[event_id] # {}
        /\ redis_client = "ready"
        /\ IF failed = "select_people"
             THEN resp' = [base EXCEPT
                     !.status = 200,
                     !.eventFound = TRUE,
                     !.total = Cardinality(registrations),
                     !.attendees =
                        Cardinality({r \in registrations : Truthy(r.attendeeId)}),
                     !.leaders =
                        Cardinality({r \in registrations : Truthy(r.leaderId)}),
                     !.volunteers =
                        Cardinality({r \in registrations : Truthy(r.volunteerId)}),
                     !.notesCount = Cardinality(event_notes),
                     !.rate = AttendanceRate(0, Cardinality(registrations)),
                     !.redisCalls = 2,
                     !.mongoCalls = 1]
             ELSE resp' = [base EXCEPT !.eventFound = (failed # "select_event")]
        /\ UNCHANGED <<relVars, redisVars, mongoVars, roleReq>>

\* GraphQL get_live_checkins_resolver: None when the set is empty and on every
\* exception, else the summary whose count is the number of Person rows found.
get_live_checkins_resolver(event_id, fault) ==
    LET student_ids == checkedIn[event_id]
        people == student_ids \cap Person
    IN  IF fault = "smembers"
        THEN [none |-> TRUE, count |-> 0, calls |-> 1, failed |-> TRUE]
        ELSE IF student_ids = {}
        THEN [none |-> TRUE, count |-> 0, calls |-> 1, failed |-> FALSE]
        ELSE IF fault = "hgetall"
        THEN [none |-> TRUE, count |-> 0, calls |-> 2, failed |-> TRUE]
        ELSE [none |-> FALSE, count |-> Cardinality(people), calls |-> 2,
              failed |-> FALSE]

\* round((live_checkins.count / len(registrations) * 100)
\*       if registrations and live_checkins else 0, 2), in hundredths of a percent
AttendanceRateResolver(live_checkins, totalRegistered) ==
    IF totalRegistered = 0 \/ live_checkins.none THEN 0
    ELSE RoundHalfEven(live_checkins.count * 10000, totalRegistered)

\* GraphQL query comprehensiveEventSummary: None for a missing event; the four
\* resolvers run in turn; get_event_notes_resolver turns a MongoDB error into an
\* HTTPException, which the outer "except Exception" turns into a 500.
get_comprehensive_event_summary_resolver(event_id, redis_fault, mongo_fault) ==
    LET base == [Reply("get_comprehensive_event_summary_resolver", 200)
                   EXCEPT !.eventId = event_id]
        registrations == RegistrationRows(event_id)
        conn == GetRedisConn(redis_fault)
        live_checkins == get_live_checkins_resolver(event_id, redis_fault)
        notes == NotesOf(event_id)
    IN  /\ redis_fault \in {"none", "ping", "smembers", "hgetall"}
        /\ redis_fault = "ping" => redis_client = "none"
        /\ IF event_id \notin Event
             THEN /\ resp' = base
                  /\ UNCHANGED redis_client
             ELSE IF conn = "exit"
             THEN /\ resp' = [base EXCEPT !.status = 0, !.eventFound = TRUE,
                                !.redisFailed = TRUE]
                  /\ redis_client' \in AfterExit
             ELSE IF mongo_fault
             THEN /\ redis_client' = "ready"
                  /\ resp' = [base EXCEPT !.status = 500, !.eventFound = TRUE,
                                !.redisCalls = live_checkins.calls,
                                !.redisFailed = live_checkins.failed,
                                !.mongoCalls = 1, !.mongoFailed = TRUE]
             ELSE /\ redis_client' = "ready"
                  /\ resp' = [base EXCEPT
                        !.eventFound = TRUE,
                        !.total = Cardinality(registrations),
                        !.attendees =
                           Cardinality({r \in registrations : Truthy(r.attendeeId)}),
                        !.leaders =
                           Cardinality({r \in registrations : Truthy(r.leaderId)}),
                        !.volunteers =
                           Cardinality({r \in registrations : Truthy(r.volunteerId)}),
                        !.liveCount = live_checkins.count,
                        !.notesCount = Cardinality(notes),
                        !.rate = AttendanceRateResolver(live_checkins,
                                                        Cardinality(registrations)),
                        !.redisCalls = live_checkins.calls,
                        !.redisFailed = live_checkins.failed,
                        !.mongoCalls = 1]
        /\ UNCHANGED <<relVars, checkedIn, checkInTimes, mongoVars, roleReq>>

\* ---------------------------------------------------------------- roles
\* POST /people/{person_id}/attendee | leader | volunteer.  The handler reads
\* (SELECT Person, SELECT <role> WHERE PersonID, SELECT MAX(ID)+1) and then INSERTs
\* and commits.  The reads of one transaction see one snapshot; requests of other
\* connections may commit between the reads and the INSERT.  ID is the table's key:
\* an INSERT of an id that is present fails (duplicate key, 500).
RoleCheck(table, person_id) ==
    IF person_id \notin Person THEN 404
    ELSE IF \E x \in table : x.personId = person_id THEN 400
    ELSE 200

RoleBegin(kind, table, person_id) ==
    LET status == RoleCheck(table, person_id)
        req == [kind |-> kind, personId |-> person_id, next_id |-> NextId(table)]
    IN  /\ Cardinality(roleReq) < MaxInFlight
        /\ req \notin roleReq
        /\ NextId(table) <= MaxRole
        /\ IF status # 200
             THEN /\ resp' = [Reply(kind, status) EXCEPT !.personId = person_id]
                  /\ UNCHANGED roleReq
             ELSE /\ roleReq' = roleReq \cup {req}
                  /\ resp' = [Reply(kind, 0) EXCEPT !.personId = person_id]
        /\ UNCHANGED <<relVars, redisVars, mongoVars>>

RoleInserted(table, req) ==
    IF req.next_id \in Ids(table) THEN table
    ELSE table \cup {[id |-> req.next_id, personId |-> req.personId]}

RoleInsertReply(table, req) ==
    IF req.next_id \in Ids(table)
    THEN [Reply(req.kind, 500) EXCEPT !.personId = req.personId]
    ELSE [Reply(req.kind, 200) EXCEPT !.personId = req.personId, !.id = req.next_id]

\* create_attendee: "guardian is required" is checked before any statement.
create_attendee_begin(person_id, guardian) ==
    IF guardian = ""
    THEN /\ resp' = [Reply("create_attendee", 400) EXCEPT !.personId = person_id]
         /\ UNCHANGED <<relVars, redisVars, mongoVars, roleReq>>
    ELSE RoleBegin("create_attendee", Attendee, person_id)

create_attendee_insert(req) ==
    /\ req \in roleReq /\ req.kind = "create_attendee"
    /\ Attendee' = RoleInserted(Attendee, req)
    /\ resp' = RoleInsertReply(Attendee, req)
    /\ roleReq' = roleReq \ {req}
    /\ UNCHANGED <<Person, personSeq, Event, eventSeq, Registration, hasVolunteerID,
                   Leader, Volunteer, SmallGroup, SmallGroupMember, SmallGroupLeader,
                   AttendanceRecord, attendanceSeq, redisVars, mongoVars>>

create_leader_begin(person_id) == RoleBegin("create_leader", Leader, person_id)

create_leader_insert(req) ==
    /\ req \in roleReq /\ req.kind = "create_leader"
    /\ Leader' = RoleInserted(Leader, req)
    /\ resp' = RoleInsertReply(Leader, req)
    /\ roleReq' = roleReq \ {req}
    /\ UNCHANGED <<Person, personSeq, Event, eventSeq, Registration, hasVolunteerID,
                   Attendee, Volunteer, SmallGroup, SmallGroupMember, SmallGroupLeader,
                   AttendanceRecord, attendanceSeq, redisVars, mongoVars>>

create_volunteer_begin(person_id) == RoleBegin("create_volunteer", Volunteer, person_id)

create_volunteer_insert(req) ==
    /\ req \in roleReq /\ req.kind = "create_volunteer"
    /\ Volunteer' = RoleInserted(Volunteer, req)
    /\ resp' = RoleInsertReply(Volunteer, req)
    /\ roleReq' = roleReq \ {req}
    /\ UNCHANGED <<Person, personSeq, Event, eventSeq, Registration, hasVolunteerID,
                   Attendee, Leader, SmallGroup, SmallGroupMember, SmallGroupLeader,
                   AttendanceRecord, attendanceSeq, redisVars, mongoVars>>

\* DELETE /attendees/{id} | /leaders/{id} | /volunteers/{id}: 404, or DELETE the row.
RoleDeleted(table, role_id) == {x \in table : x.id # role_id}

RoleDeleteReply(op, table, role_id) ==
    [Reply(op, IF role_id \in Ids(table) THEN 200 ELSE 404) EXCEPT !.id = role_id]

delete_attendee(attendee_id) ==
    /\ Attendee' = RoleDeleted(Attendee, attendee_id)
    /\ resp' = RoleDeleteReply("delete_attendee", Attendee, attendee_id)
    /\ UNCHANGED <<Person, personSeq, Event, eventSeq, Registration, hasVolunteerID,
                   Leader, Volunteer, SmallGroup, SmallGroupMember, SmallGroupLeader,
                   AttendanceRecord, attendanceSeq, redisVars, mongoVars, roleReq>>

delete_leader(leader_id) ==
    /\ Leader' = RoleDeleted(Leader, leader_id)
    /\ resp' = RoleDeleteReply("delete_leader", Leader, leader_id)
    /\ UNCHANGED <<Person, personSeq, Event, eventSeq, Registration, hasVolunteerID,
                   Attendee, Volunteer, SmallGroup, SmallGroupMember, SmallGroupLeader,
                   AttendanceRecord, attendanceSeq, redisVars, mongoVars, roleReq>>

delete_volunteer(volunteer_id) ==
    /\ Volunteer' = RoleDeleted(Volunteer, volunteer_id)
    /\ resp' = RoleDeleteReply("delete_volunteer", Volunteer, volunteer_id)
    /\ UNCHANGED <<Person, personSeq, Event, eventSeq, Registration, hasVolunteerID,
                   Attendee, Leader, SmallGroup, SmallGroupMember, SmallGroupLeader,
                   AttendanceRecord, attendanceSeq, redisVars, mongoVars, roleReq>>

\* ---------------------------------------------------------------- small groups
\* POST /smallgroups: 400 without a name, else INSERT with id MAX(ID)+1.
create_small_group(name) ==
    LET next_id == NextId([id : SmallGroup])
    IN  /\ next_id <= MaxGroup
        /\ IF name = ""
             THEN /\ resp' = Reply("create_small_group", 400)
                  /\ UNCHANGED SmallGroup
             ELSE /\ SmallGroup' = SmallGroup \cup {next_id}
                  /\ resp' = [Reply("create_small_group", 200) EXCEPT !.id = next_id]
        /\ UNCHANGED <<Person, personSeq, Event, eventSeq, Registration, hasVolunteerID,
                       Attendee, Leader, Volunteer, SmallGroupMember, SmallGroupLeader,
                       AttendanceRecord, attendanceSeq, redisVars, mongoVars, roleReq>>

\* GraphQL mutation createSmallGroup: the same two statements, no name check.
create_small_group_resolver(name) ==
    LET next_id == NextId([id : SmallGroup])
    IN  /\ next_id <= MaxGroup
        /\ SmallGroup' = SmallGroup \cup {next_id}
        /\ resp' = [Reply("create_small_group_resolver", 200) EXCEPT !.id = next_id]
        /\ UNCHANGED <<Person, personSeq, Event, eventSeq, Registration, hasVolunteerID,
                       Attendee, Leader, Volunteer, SmallGroupMember, SmallGroupLeader,
                       AttendanceRecord, attendanceSeq, redisVars, mongoVars, roleReq>>

\* DELETE /smallgroups/{group_id}: 404 without the row, else DELETE of the row
\* alone (member and leader rows are left to the schema).
delete_small_group(group_id) ==
    /\ IF group_id \notin SmallGroup
         THEN /\ resp' = [Reply("delete_small_group", 404) EXCEPT !.id = group_id]
              /\ UNCHANGED SmallGroup
         ELSE /\ SmallGroup' = SmallGroup \ {group_id}
              /\ resp' = [Reply("delete_small_group", 200) EXCEPT !.id = group_id]
    /\ UNCHANGED <<Person, personSeq, Event, eventSeq, Registration, hasVolunteerID,
                   Attendee, Leader, Volunteer, SmallGroupMember, SmallGroupLeader,
                   AttendanceRecord, attendanceSeq, redisVars, mongoVars, roleReq>>

\* A small-group creation as its two statements: the SELECT of MAX(ID) + 1, after
\* which the request is in flight holding next_id, and the INSERT with commit.
\* Between the two, requests on other connections may commit.
GroupBegin(kind) ==
    LET req == [kind |-> kind, personId |-> NULL,
                next_id |-> NextId([id : SmallGroup])]
    IN  /\ Cardinality(roleReq) < MaxInFlight
        /\ req \notin roleReq
        /\ req.next_id <= MaxGroup
        /\ roleReq' = roleReq \cup {req}
        /\ resp' = Reply(kind, 0)
        /\ UNCHANGED <<relVars, redisVars, mongoVars>>

\* The INSERT repeated with a freshly read id when the first id is taken.
GroupInserted_Retried(req) == SmallGroup \cup {NextId([id : SmallGroup])}

\* INSERT INTO SmallGroup (ID, Name) VALUES (next_id, ...): ID is the key, so the
\* statement fails when the id is present.
GroupInserted(req) ==
    IF req.next_id \in SmallGroup THEN SmallGroup ELSE SmallGroup \cup {req.next_id}

\* The id returned on success; "except mysql.connector.Error" / "except Exception"
\* answer a failed INSERT with 500.
GroupInsertReply(req) ==
    [Reply(req.kind, IF req.next_id \in SmallGroup THEN 500 ELSE 200)
       EXCEPT !.id = req.next_id]

GroupInsert(kind, req) ==
    /\ req \in roleReq /\ req.kind = kind
    /\ SmallGroup' = GroupInserted(req)
    /\ resp' = GroupInsertReply(req)
    /\ roleReq' = roleReq \ {req}
    /\ UNCHANGED <<Person, personSeq, Event, eventSeq, Registration, hasVolunteerID,
                   Attendee, Leader, Volunteer, SmallGroupMember, SmallGroupLeader,
                   AttendanceRecord, attendanceSeq, redisVars, mongoVars>>

create_small_group_begin(name) ==
    IF name = ""
    THEN /\ resp' = Reply("create_small_group", 400)
         /\ UNCHANGED <<relVars, redisVars, mongoVars, roleReq>>
    ELSE GroupBegin("create_small_group")

create_small_group_insert(req) == GroupInsert("create_small_group", req)

create_small_group_resolver_begin(name) == GroupBegin("create_small_group_resolver")

create_small_group_resolver_insert(req) ==
    GroupInsert("create_small_group_resolver", req)

\* POST /smallgroups/{group_id}/members: 400 without attendeeID, 404 without the
\* group, 400 when the (attendee, group) pair is present, else INSERT.
add_member_to_group(group_id, attendee_id) ==
    LET next_id == NextId(SmallGroupMember)
        status == IF ~Truthy(attendee_id) THEN 400
                  ELSE IF group_id \notin SmallGroup THEN 404
                  ELSE IF \E m \in SmallGroupMember :
                            m.attendeeId = attendee_id /\ m.smallGroupId = group_id
                       THEN 400
                  ELSE 200
    IN  /\ next_id <= MaxMember
        /\ resp' = [Reply("add_member_to_group", status) EXCEPT !.id = group_id]
        /\ SmallGroupMember' =
             IF status = 200
             THEN SmallGroupMember \cup {[id |-> next_id, attendeeId |-> attendee_id,
                                          smallGroupId |-> group_id]}
             ELSE SmallGroupMember
        /\ UNCHANGED <<Person, personSeq, Event, eventSeq, Registration, hasVolunteerID,
                       Attendee, Leader, Volunteer, SmallGroup, SmallGroupLeader,
                       AttendanceRecord, attendanceSeq, redisVars, mongoVars, roleReq>>

\* POST /smallgroups/{group_id}/leaders: the same checks on SmallGroupLeader.
add_leader_to_group(group_id, leader_id) ==
    LET next_id == NextId(SmallGroupLeader)
        status == IF ~Truthy(leader_id) THEN 400
                  ELSE IF group_id \notin SmallGroup THEN 404
                  ELSE IF \E m \in SmallGroupLeader :
                            m.leaderId = leader_id /\ m.smallGroupId = group_id
                       THEN 400
                  ELSE 200
    IN  /\ next_id <= MaxMember
        /\ resp' = [Reply("add_leader_to_group", status) EXCEPT !.id = group_id]
        /\ SmallGroupLeader' =
             IF status = 200
             THEN SmallGroupLeader \cup {[id |-> next_id, leaderId |-> leader_id,
                                          smallGroupId |-> group_id]}
             ELSE SmallGroupLeader
        /\ UNCHANGED <<Person, personSeq, Event, eventSeq, Registration, hasVolunteerID,
                       Attendee, Leader, Volunteer, SmallGroup, SmallGroupMember,
                       AttendanceRecord, attendanceSeq, redisVars, mongoVars, roleReq>>

\* GraphQL mutation addMemberToGroup: MAX(ID)+1, INSERT, commit.  No lookup of the
\* group and no lookup of an existing (attendee, group) row.
add_member_to_group_resolver(group_id, attendeeId) ==
    LET next_id == NextId(SmallGroupMember)
    IN  /\ next_id <= MaxMember
        /\ SmallGroupMember' = SmallGroupMember \cup
               {[id |-> next_id, attendeeId |-> attendeeId, smallGroupId |-> group_id]}
        /\ resp' = [Reply("add_member_to_group_resolver", 200) EXCEPT !.id = next_id]
        /\ UNCHANGED <<Person, personSeq, Event, eventSeq, Registration, hasVolunteerID,
                       Attendee, Leader, Volunteer, SmallGroup, SmallGroupLeader,
                       AttendanceRecord, attendanceSeq, redisVars, mongoVars, roleReq>>

\* GraphQL mutation addLeaderToGroup: the same, on SmallGroupLeader.
add_leader_to_group_resolver(group_id, leaderId) ==
    LET next_id == NextId(SmallGroupLeader)
    IN  /\ next_id <= MaxMember
        /\ SmallGroupLeader' = SmallGroupLeader \cup
               {[id |-> next_id, leaderId |-> leaderId, smallGroupId |-> group_id]}
        /\ resp' = [Reply("add_leader_to_group_resolver", 200) EXCEPT !.id = next_id]
        /\ UNCHANGED <<Person, personSeq, Event, eventSeq, Registration, hasVolunteerID,
                       Attendee, Leader, Volunteer, SmallGroup, SmallGroupMember,
                       AttendanceRecord, attendanceSeq, redisVars, mongoVars, roleReq>>

\* DELETE /smallgroups/{group_id}/members/{member_id}: 404 unless the row with that
\* id belongs to the group, else DELETE it.
remove_member_from_group(group_id, member_id) ==
    LET hit == {m \in SmallGroupMember : m.id = member_id /\ m.smallGroupId = group_id}
    IN  /\ SmallGroupMember' = SmallGroupMember \ hit
        /\ resp' = [Reply("remove_member_from_group", IF hit = {} THEN 404 ELSE 200)
                      EXCEPT !.id = member_id]
        /\ UNCHANGED <<Person, personSeq, Event, eventSeq, Registration, hasVolunteerID,
                       Attendee, Leader, Volunteer, SmallGroup, SmallGroupLeader,
                       AttendanceRecord, attendanceSeq, redisVars, mongoVars, roleReq>>

\* DELETE /smallgroups/{group_id}/leaders/{leader_id}: the same, on SmallGroupLeader.
remove_leader_from_group(group_id, leader_id) ==
    LET hit == {m \in SmallGroupLeader : m.id = leader_id /\ m.smallGroupId = group_id}
    IN  /\ SmallGroupLeader' = SmallGroupLeader \ hit
        /\ resp' = [Reply("remove_leader_from_group", IF hit = {} THEN 404 ELSE 200)
                      EXCEPT !.id = leader_id]
        /\ UNCHANGED <<Person, personSeq, Event, eventSeq, Registration, hasVolunteerID,
                       Attendee, Leader, Volunteer, SmallGroup, SmallGroupMember,
                       AttendanceRecord, attendanceSeq, redisVars, mongoVars, roleReq>>

\* ---------------------------------------------------------------- specifications
Faults == {"none", "ping", "smembers", "hgetall", "sadd", "hset", "srem", "hdel",
           "delete_set", "delete_hash"}
OptRole == {NULL} \cup RoleIds
RoleReqs == [kind : {"create_attendee", "create_leader", "create_volunteer"},
             personId : PersonIds, next_id : RoleIds]

\* The aggregation slice with its failure policy: events, registrations, check-ins,
\* notes and the two summaries, under every store fault the handlers can meet.
Next ==
    \/ create_event
    \/ \E e \in EventIds, m \in BOOLEAN, f \in Faults : delete_event(e, m, f)
    \/ \E e \in EventIds : register_for_event(e, 1, NULL, NULL, "contact")
    \/ \E e \in EventIds, h \in BOOLEAN, f \in BOOLEAN : add_event_notes(e, h, f)
    \/ \E e \in EventIds, f \in Faults, m \in BOOLEAN :
          get_comprehensive_event_summary(e, f, m)

Spec == Init /\ [][Next]_vars

\* Attendance rate: registrations and check-ins of an event, and the two
\* summaries that divide one count by the other.
NextRate ==
    \/ create_person
    \/ create_event
    \/ \E e \in EventIds : register_for_event(e, 1, NULL, NULL, "contact")
    \/ \E e \in EventIds, p \in PersonIds : checkin_person(e, p, "t1", "none")
    \/ \E e \in EventIds : get_comprehensive_event_summary(e, "none", FALSE)
    \/ \E e \in EventIds : get_comprehensive_event_summary_resolver(e, "none", FALSE)

SpecRate == Init /\ [][NextRate]_vars

\* Check-in and check-out of people at events, under every Redis fault.
NextCheckout ==
    \/ create_person
    \/ \E e \in EventIds, p \in PersonIds, f \in Faults :
          checkin_person(e, p, "t1", f)
    \/ \E e \in EventIds, p \in PersonIds, f \in Faults : checkout_person(e, p, f)

SpecCheckout == Init /\ [][NextCheckout]_vars

\* Live check-in state: check-ins, check-outs, creation and deletion of people and
\* events, and the summary that reports the state.
NextLive ==
    \/ create_person
    \/ \E p \in PersonIds : delete_person(p)
    \/ create_event
    \/ \E e \in EventIds, m \in BOOLEAN, f \in Faults : delete_event(e, m, f)
    \/ \E e \in EventIds, p \in PersonIds, t \in Times, f \in Faults :
          checkin_person(e, p, t, f)
    \/ \E e \in EventIds, p \in PersonIds, f \in Faults : checkout_person(e, p, f)
    \/ \E e \in EventIds, f \in Faults, m \in BOOLEAN :
          get_comprehensive_event_summary(e, f, m)
    \/ \E e \in EventIds, f \in Faults : get_live_checkins(e, f)

SpecLive == Init /\ [][NextLive]_vars

\* Registration shapes: roles created one request at a time, registrations through
\* REST and GraphQL with every combination of role ids, and the summary.
RegRole == {NULL, 1}

NextReg ==
    \/ create_person
    \/ create_event
    \/ /\ roleReq = {}
       /\ \E p \in PersonIds, g \in {"", "guardian"} : create_attendee_begin(p, g)
    \/ /\ roleReq = {}
       /\ \E p \in PersonIds : create_leader_begin(p)
    \/ \E r \in RoleReqs : create_attendee_insert(r)
    \/ \E r \in RoleReqs : create_leader_insert(r)
    \/ /\ Cardinality(Registration) < MaxShapes
       /\ \E e \in EventIds, a \in RegRole, l \in RegRole, v \in RegRole,
             c \in {"", "contact"} : register_for_event(e, a, l, v, c)
    \/ /\ Cardinality(Registration) < MaxShapes
       /\ \E e \in EventIds, a \in RegRole, l \in RegRole, v \in RegRole :
             register_for_event_resolver(e, a, l, v)
    \/ \E e \in EventIds : get_comprehensive_event_summary(e, "none", FALSE)

SpecReg == Init /\ [][NextReg]_vars

\* Role records: concurrent role creation and role deletion.
NextRoles ==
    \/ create_person
    \/ \E p \in PersonIds, g \in {"", "guardian"} : create_attendee_begin(p, g)
    \/ \E p \in PersonIds : create_leader_begin(p)
    \/ \E p \in PersonIds : create_volunteer_begin(p)
    \/ \E r \in RoleReqs : create_attendee_insert(r)
    \/ \E r \in RoleReqs : create_leader_insert(r)
    \/ \E r \in RoleReqs : create_volunteer_insert(r)
    \/ \E i \in RoleIds : delete_attendee(i)
    \/ \E i \in RoleIds : delete_leader(i)
    \/ \E i \in RoleIds : delete_volunteer(i)

SpecRoles == Init /\ [][NextRoles]_vars

\* Small-group membership through the REST endpoints and the GraphQL mutations.
NextGroups ==
    \/ \E n \in {"", "name"} : create_small_group(n)
    \/ \E g \in GroupIds, a \in OptRole : add_member_to_group(g, a)
    \/ \E g \in GroupIds, l \in OptRole : add_leader_to_group(g, l)
    \/ \E g \in GroupIds, a \in RoleIds : add_member_to_group_resolver(g, a)
    \/ \E g \in GroupIds, l \in RoleIds : add_leader_to_group_resolver(g, l)
    \/ \E g \in GroupIds, m \in 1..MaxMember : remove_member_from_group(g, m)
    \/ \E g \in GroupIds, m \in 1..MaxMember : remove_leader_from_group(g, m)

SpecGroups == Init /\ [][NextGroups]_vars

\* Small-group ids: creations through both API surfaces, deletions and the
\* enrolment of an attendee, one request at a time.
NextGroupIds ==
    \/ \E n \in {"", "name"} : create_small_group(n)
    \/ \E n \in {"name", "other"} : create_small_group_resolver(n)
    \/ \E g \in GroupIds : delete_small_group(g)
    \/ \E g \in GroupIds : add_member_to_group(g, 1)

SpecGroupIds == Init /\ [][NextGroupIds]_vars

\* Manual ids under concurrency: small-group and attendee creations split at the
\* point between reading MAX(ID) and inserting.
GroupKinds == {"create_small_group", "create_small_group_resolver"}

GroupReqs == [kind : GroupKinds, personId : {NULL}, next_id : GroupIds]

NextIds ==
    \/ \E n \in {"", "name"} : create_small_group_begin(n)
    \/ \E n \in {"name"} : create_small_group_resolver_begin(n)
    \/ \E r \in GroupReqs : create_small_group_insert(r)
    \/ \E r \in GroupReqs : create_small_group_resolver_insert(r)
    \/ create_person
    \/ \E p \in PersonIds : create_attendee_begin(p, "guardian")
    \/ \E r \in RoleReqs : create_attendee_insert(r)

SpecIds == Init /\ [][NextIds]_vars

\* Repeated check-ins: people and check-ins at two instants, with the Redis
\* faults of a check-in.
NextCheckin ==
    \/ create_person
    \/ \E e \in EventIds, p \in PersonIds, t \in Times, f \in {"none", "sadd", "hset"} :
          checkin_person(e, p, t, f)

SpecCheckin == Init /\ [][NextCheckin]_vars

\* Purge on event deletion: check-ins that succeed, then deletions of the event
\* under every fault of the two best-effort stores, and the listing afterwards.
NextPurge ==
    \/ create_person
    \/ create_event
    \/ \E e \in EventIds, p \in PersonIds : checkin_person(e, p, "t1", "none")
    \/ \E e \in EventIds, m \in BOOLEAN, f \in Faults : delete_event(e, m, f)
    \/ \E e \in EventIds : get_live_checkins(e, "none")

SpecPurge == Init /\ [][NextPurge]_vars

\* Relational errors: the handlers of people, events, check-ins, notes, the
\* summary and the search, each also with one of its statements failing.
NextRelFaults ==
    \/ create_person
    \/ \E f \in {"insert", "commit", "select"} : create_person_mysql_error(f)
    \/ create_event
    \/ \E e \in EventIds : register_for_event(e, 1, NULL, NULL, "contact")
    \/ \E e \in EventIds, p \in PersonIds : checkin_person(e, p, "t1", "none")
    \/ \E e \in EventIds : add_event_notes(e, TRUE, FALSE)
    \/ \E e \in EventIds : delete_event(e, FALSE, "none")
    \/ \E e \in EventIds,
          f \in {"select_event", "delete_registration", "delete_attendance",
                 "delete_event", "commit"} : delete_event_mysql_error(e, f)
    \/ \E e \in EventIds : get_comprehensive_event_summary(e, "none", FALSE)
    \/ \E e \in EventIds,
          f \in {"select_event", "select_registrations", "select_people"} :
          get_comprehensive_event_summary_mysql_error(e, f)
    \/ \E f \in BOOLEAN : search_all(f)

SpecRelFaults == Init /\ [][NextRelFaults]_vars

\* Missing targets: deletions and reads of people, events and small groups by ids
\* that may or may not exist.
NextNotFound ==
    \/ create_person
    \/ \E p \in PersonIds : delete_person(p)
    \/ \E p \in PersonIds : delete_person_resolver(p)
    \/ create_event
    \/ \E e \in EventIds : delete_event(e, FALSE, "none")
    \/ \E e \in EventIds : get_comprehensive_event_summary(e, "none", FALSE)
    \/ \E n \in {"name"} : create_small_group(n)
    \/ \E g \in GroupIds : delete_small_group(g)

SpecNotFound == Init /\ [][NextNotFound]_vars

\* Pool connections: the reads that acquire connections, over people, events
\* and check-ins.
NextPool ==
    \/ create_person
    \/ create_event
    \/ \E e \in EventIds, p \in PersonIds : checkin_person(e, p, "t1", "none")
    \/ \E e \in EventIds, f \in {"none", "smembers"} :
          get_comprehensive_event_summary(e, f, FALSE)
    \/ \E f \in {"none", "get_connection", "execute"} : get_events_by_type(f)
    \/ \E p \in PersonIds, f \in {"none", "get_connection", "execute"} :
          get_person_by_id_resolver(p, f)

SpecPool == Init /\ [][NextPool]_vars

\* Schema fallback: with or without the VolunteerID column, a volunteer role,
\* registrations of each role, and the two readers of an event's registrations.
NextSchema ==
    \/ create_person
    \/ create_event
    \/ /\ roleReq = {}
       /\ \E p \in PersonIds : create_volunteer_begin(p)
    \/ \E r \in RoleReqs : create_volunteer_insert(r)
    \/ \E e \in EventIds, a \in RegRole, v \in RegRole :
          register_for_event(e, a, NULL, v, "contact")
    \/ \E e \in EventIds : get_registrations_for_event(e)
    \/ \E e \in EventIds : get_comprehensive_event_summary(e, "none", FALSE)

SpecSchema == Init /\ [][NextSchema]_vars

\* Degraded summaries: registrations, check-ins and notes of the first event, and
\* the summary of any event with SMEMBERS, HGETALL or the MongoDB find failing.
NextDegraded ==
    \/ create_person
    \/ create_event
    \/ register_for_event(1, 1, NULL, NULL, "contact")
    \/ checkin_person(1, 1, "t1", "none")
    \/ add_event_notes(1, TRUE, FALSE)
    \/ \E e \in EventIds, f \in {"none", "smembers", "hgetall"}, m \in BOOLEAN :
          get_comprehensive_event_summary(e, f, m)

SpecDegraded == Init /\ [][NextDegraded]_vars

\* Notes: documents of the two note collections created, listed and deleted
\* over HTTP.
NextNotes ==
    \/ create_person
    \/ create_event
    \/ \E e \in EventIds, h \in BOOLEAN : add_event_notes(e, h, FALSE)
    \/ \E p \in PersonIds, h \in BOOLEAN : add_note_to_person(p, h)
    \/ \E n \in 1..MaxNote : http_delete_notes(n)
    \/ \E e \in EventIds : get_event_notes(e)

SpecNotes == Init /\ [][NextNotes]_vars

\* The two API surfaces of the summary: registrations, check-ins and notes of
\* the first event, and the REST and the GraphQL summary of any event with
\* SMEMBERS, HGETALL or the MongoDB find failing.
NextSurfaces ==
    \/ create_person
    \/ create_event
    \/ register_for_event(1, 1, NULL, NULL, "contact")
    \/ checkin_person(1, 1, "t1", "none")
    \/ add_event_notes(1, TRUE, FALSE)
    \/ \E e \in EventIds, f \in {"none", "smembers", "hgetall"}, m \in BOOLEAN :
          get_comprehensive_event_summary(e, f, m)
    \/ \E e \in EventIds, f \in {"none", "smembers", "hgetall"}, m \in BOOLEAN :
          get_comprehensive_event_summary_resolver(e, f, m)

SpecSurfaces == Init /\ [][NextSurfaces]_vars

\* Concurrent check-ins and check-outs of one person at one event, Redis
\* answering: requests that run without interruption and requests whose two
\* Redis commands are separated by the commands of other requests.
CheckReqs ==
    [kind : {"checkin_person", "checkout_person"}, eventId : {1}, personId : {1},
     now_utc_iso : Times \cup {NoTime}, removed : {0, 1}]

NextRace ==
    \/ create_person
    \/ \E t \in Times : checkin_person(1, 1, t, "none")
    \/ checkout_person(1, 1, "none")
    \/ \E t \in Times : checkin_person_sadd(1, 1, t)
    \/ \E r \in CheckReqs : checkin_person_hset(r)
    \/ checkout_person_srem(1, 1)
    \/ \E r \in CheckReqs : checkout_person_hdel(r)

SpecRace == Init /\ [][NextRace]_vars

\* Check-in state and the life of events: events created and deleted, people
\* checked in and out, every store answering.
NextOrphans ==
    \/ create_person
    \/ create_event
    \/ \E e \in EventIds : delete_event(e, FALSE, "none")
    \/ \E e \in EventIds, p \in PersonIds : checkin_person(e, p, "t1", "none")
    \/ \E e \in EventIds, p \in PersonIds : checkout_person(e, p, "none")

SpecOrphans == Init /\ [][NextOrphans]_vars

\* Event types: definitions created, renamed or updated, and deleted, one
\* request at a time.
NextTypes ==
    \/ \E n \in TypeNames \cup {NoName} : create_event_type(n)
    \/ \E n \in TypeNames, m \in TypeNames \cup {NoName} : update_event_type(n, m)
    \/ \E n \in TypeNames : delete_event_type(n)

SpecTypes == Init /\ [][NextTypes]_vars

\* ======================================================================== claims
IsSummary == resp.op = "get_comprehensive_event_summary"

IsSummaryQuery == resp.op = "get_comprehensive_event_summary_resolver"

RegistrationsOf(event_id) == {r \in Registration : r.eventId = event_id}

RoleCount(r) ==
    (IF r.attendeeId # NULL THEN 1 ELSE 0) + (IF r.leaderId # NULL THEN 1 ELSE 0)
    + (IF r.volunteerId # NULL THEN 1 ELSE 0)

\* C1: a summary request for an event id that has no Event row is answered with a
\* 404 and makes no call to the document store or to the ephemeral store.
C1_MissingEventIs404 ==
    (IsSummary /\ resp.eventId \notin Event)
        => (resp.status = 404 /\ resp.mongoCalls = 0 /\ resp.redisCalls = 0)

\* C2: every Registration row has exactly one of its attendee, leader and
\* volunteer ids non-null.
C2_ExactlyOneRoleId == \A r \in Registration : RoleCount(r) = 1

\* C3: when the event exists and the document-store step of the summary fails,
\* the request succeeds with notes.count 0 and an empty notes list, and the
\* registration section is what the Registration rows of the event give.
C3_DocumentStoreFailureDegrades ==
    (IsSummary /\ resp.eventId \in Event /\ resp.mongoCalls > 0 /\ resp.mongoFailed)
        => /\ resp.status = 200
           /\ resp.notesCount = 0
           /\ resp.total = Cardinality(RegistrationsOf(resp.eventId))
           /\ resp.attendees =
                Cardinality({r \in RegistrationsOf(resp.eventId) : r.attendeeId # NULL})
           /\ resp.leaders =
                Cardinality({r \in RegistrationsOf(resp.eventId) : r.leaderId # NULL})

\* C3 witness: a summary degraded by the document store although the event has a
\* note and a registration.
C3_Witness ==
    /\ IsSummary /\ resp.eventId \in Event /\ resp.mongoFailed /\ resp.status = 200
    /\ resp.notesCount = 0
    /\ NotesOf(resp.eventId) # {}
    /\ resp.total > 0

\* C4: an ephemeral-store error during the summary never aborts the request: it
\* succeeds with liveCheckIns.count 0 and no students, and the document-store step
\* is still executed.
C4_EphemeralFailureDegrades ==
    (IsSummary /\ resp.eventId \in Event /\ resp.redisFailed)
        => /\ resp.status = 200
           /\ resp.liveCount = 0
           /\ resp.students = {}
           /\ resp.mongoCalls = 1

\* C5: with every store available, liveCheckIns.count of the summary is the number
\* of ids in the event's checked-in set.
C5_LiveCountIsSetSize ==
    (IsSummary /\ resp.status = 200 /\ ~resp.redisFailed /\ ~resp.mongoFailed)
        => resp.liveCount = Cardinality(checkedIn[resp.eventId])

\* C6: registrations.total of the summary is the number of Registration rows of
\* the event, and attendees + leaders + volunteers = total.
C6_RegistrationCounts ==
    (IsSummary /\ resp.status = 200)
        => /\ resp.total = Cardinality(RegistrationsOf(resp.eventId))
           /\ resp.attendees + resp.leaders + resp.volunteers = resp.total

\* C7: attendanceRate is checkedInCount / totalRegistered * 100 rounded to two
\* decimals when totalRegistered > 0 (the nearest hundredth: twice the distance is
\* at most one hundredth), and 0 when totalRegistered = 0 whatever checkedInCount is.
C7_AttendanceRate ==
    ((IsSummary \/ IsSummaryQuery) /\ resp.status = 200 /\ resp.eventFound)
        => IF resp.total = 0 THEN resp.rate = 0
           ELSE 2 * Abs(resp.rate * resp.total - 10000 * resp.liveCount) <= resp.total

\* C7 witness: two of three registered are checked in, a quotient that has to be
\* rounded up (66.67).
C7_Witness ==
    /\ IsSummary \/ IsSummaryQuery
    /\ resp.status = 200 /\ resp.total = 3 /\ resp.liveCount = 2 /\ resp.rate = 6667

\* C8: a successful check-out leaves the person in neither the checked-in set nor
\* the timestamp map of the event, and changes no relational table: the
\* AttendanceRecord rows of the check-in are all still there.
C8_CheckoutKeepsHistory ==
    [][(resp'.op = "checkout_person" /\ resp'.status = 200)
          => /\ resp'.personId \notin checkedIn'[resp'.eventId]
             /\ checkInTimes'[resp'.eventId][resp'.personId] = NoTime
             /\ AttendanceRecord' = AttendanceRecord
             /\ UNCHANGED relVars
             /\ UNCHANGED mongoVars]_vars

\* C8 witness: a successful check-out of a pair whose check-in wrote an
\* AttendanceRecord row.
C8_Witness ==
    /\ resp.op = "checkout_person" /\ resp.status = 200
    /\ resp.personId \notin checkedIn[resp.eventId]
    /\ \E a \in AttendanceRecord :
          a.personId = resp.personId /\ a.eventId = resp.eventId

\* C9: each Person has at most one Attendee, one Leader and one Volunteer record.
C9_OneRoleRecordPerPerson ==
    \A p \in PersonIds :
        /\ Cardinality({a \in Attendee : a.personId = p}) <= 1
        /\ Cardinality({l \in Leader : l.personId = p}) <= 1
        /\ Cardinality({v \in Volunteer : v.personId = p}) <= 1

\* C10: an attendee id appears at most once among the members of a group, and a
\* leader id at most once among its leaders.
C10_OncePerGroup ==
    \A g \in GroupIds, x \in RoleIds :
        /\ Cardinality({m \in SmallGroupMember :
                          m.smallGroupId = g /\ m.attendeeId = x}) <= 1
        /\ Cardinality({l \in SmallGroupLeader :
                          l.smallGroupId = g /\ l.leaderId = x}) <= 1

IsGroupCreation == resp.op \in {"create_small_group", "create_small_group_resolver"}

\* C11: a SmallGroup creation that runs alone inserts and returns id 1 when the
\* table is empty and otherwise the largest id present plus one.
C11_SequentialGroupIds ==
    [][(resp'.op \in {"create_small_group", "create_small_group_resolver"}
          /\ resp'.status = 200)
          => /\ SmallGroup' = SmallGroup \cup {resp'.id}
             /\ resp'.id \notin SmallGroup
             /\ SmallGroup = {} => resp'.id = 1
             /\ SmallGroup # {} => (resp'.id - 1) \in SmallGroup
             /\ \A g \in SmallGroup : g < resp'.id]_vars

\* C11 witness: a creation after a deletion, where the largest id plus one is not
\* the number of rows plus one.
C11_Witness ==
    /\ IsGroupCreation /\ resp.status = 200
    /\ resp.id = 3 /\ SmallGroup = {2, 3}

\* The ids of the table a request in flight is about to insert into.
TargetIds(req) ==
    IF req.kind \in GroupKinds THEN SmallGroup ELSE Ids(Attendee)

C13_CheckoutOutcome ==
    [][(resp'.op = "checkout_person" /\ resp'.status \in {200, 404})
          => IF resp'.personId \in checkedIn[resp'.eventId]
             THEN /\ resp'.status = 200
                  /\ resp'.personId \notin checkedIn'[resp'.eventId]
                  /\ checkInTimes'[resp'.eventId][resp'.personId] = NoTime
             ELSE /\ resp'.status = 404
                  /\ checkedIn' = checkedIn
                  /\ checkInTimes' = checkInTimes]_vars

\* C13 as amended: a check-out whose Redis commands succeed removes exactly the
\* person from the event's checked-in set and exactly the person's entry from the
\* event's timestamp map, and answers 200 when the person was in the set and 404
\* when not; on a 404 the set is unchanged, and a timestamp left behind for the
\* person is removed.
C13_CheckoutOutcomeAmended ==
    [][(resp'.op = "checkout_person" /\ resp'.status \in {200, 404})
          => /\ resp'.status =
                  (IF resp'.personId \in checkedIn[resp'.eventId] THEN 200 ELSE 404)
             /\ checkedIn' = [checkedIn EXCEPT
                                ![resp'.eventId] = @ \ {resp'.personId}]
             /\ \A e \in EventIds, p \in PersonIds :
                   checkInTimes'[e][p] =
                      (IF e = resp'.eventId /\ p = resp'.personId THEN NoTime
                       ELSE checkInTimes[e][p])]_vars

\* C13 witness: a check-out answered 404 for a pair that was checked in and
\* checked out before, while another person stays checked in to the event.
C13_Witness ==
    /\ resp.op = "checkout_person" /\ resp.status = 404
    /\ \E a \in AttendanceRecord :
          a.personId = resp.personId /\ a.eventId = resp.eventId
    /\ checkedIn[resp.eventId] # {}
    /\ \E p \in checkedIn[resp.eventId] : checkInTimes[resp.eventId][p] # NoTime

\* C14: a successful check-in of a pair that is already checked in leaves the
\* event's checked-in set unchanged, sets the pair's timestamp to the new one and
\* changes no other entry of any timestamp map.
C14_CheckinIdempotent ==
    [][(/\ resp'.op = "checkin_person" /\ resp'.status = 200
        /\ resp'.personId \in checkedIn[resp'.eventId])
          => /\ checkedIn' = checkedIn
             /\ checkInTimes'[resp'.eventId][resp'.personId] = resp'.checkInTime
             /\ resp'.checkInTime \in Times
             /\ \A e \in EventIds, p \in PersonIds :
                   (e # resp'.eventId \/ p # resp'.personId)
                     => checkInTimes'[e][p] = checkInTimes[e][p]]_vars

\* C14 witness: the second check-in of a pair, at another instant than the first.
C14_Witness ==
    /\ resp.op = "checkin_person" /\ resp.status = 200
    /\ Cardinality({a \in AttendanceRecord :
                      a.personId = resp.personId /\ a.eventId = resp.eventId}) = 2
    /\ checkedIn[resp.eventId] = {resp.personId}
    /\ resp.checkInTime = "t2"
    /\ checkInTimes[resp.eventId][resp.personId] = "t2"

\* C15: GET /event/{eventId}/live-checkins for an event whose checked-in set is
\* empty answers with success and count 0, not with an error status.
C15_EmptyListingIsSuccess ==
    (resp.op = "get_live_checkins" /\ checkedIn[resp.eventId] = {}
       /\ ~resp.redisFailed)
        => (resp.status = 200 /\ resp.liveCount = 0)

\* C16: after delete_event of an existing event has succeeded with Redis
\* available, the event's checked-in set is empty and its timestamp map has no
\* entry, so a listing for that event id finds no members.
C16_DeleteEventPurges ==
    (resp.op = "delete_event" /\ resp.status = 200 /\ ~resp.redisFailed)
        => /\ resp.eventId \notin Event
           /\ checkedIn[resp.eventId] = {}
           /\ \A p \in PersonIds : checkInTimes[resp.eventId][p] = NoTime

\* C16 witness: a successful deletion, with Redis available, of an event that
\* people had checked in to.
C16_Witness ==
    /\ resp.op = "delete_event" /\ resp.status = 200 /\ ~resp.redisFailed
    /\ attendanceSeq > 0 /\ eventSeq = 1
    /\ checkedIn[resp.eventId] = {}

\* C17: in delete_event the removal of the event's notes and the purge of its
\* check-in state never precede the removal of the Event row: whenever a
\* delete_event has removed notes or check-in state, the Event row is gone.
C17_RelationalRowsFirst ==
    [][(/\ resp'.op = "delete_event"
        /\ \/ eventNotes' # eventNotes
           \/ checkedIn' # checkedIn
           \/ checkInTimes' # checkInTimes)
          => resp'.eventId \notin Event']_vars

\* C18: an operation on a single resource whose id does not exist answers 404
\* and leaves every store unchanged.
C18_MissingTargetIs404 ==
    [][(\/ /\ resp'.op \in {"delete_person", "delete_person_resolver"}
           /\ resp'.personId \notin Person
        \/ /\ resp'.op \in {"delete_event", "get_comprehensive_event_summary"}
           /\ resp'.eventId \notin Event
        \/ /\ resp'.op = "delete_small_group"
           /\ resp'.id \notin SmallGroup)
          => /\ resp'.status = 404
             /\ UNCHANGED <<relVars, redisVars, mongoVars>>]_vars

\* C19: a request in which a relational statement raised an error ends with a
\* server-error response, never with a success response.
C19_RelationalErrorIsFatal == resp.mysqlFailed => resp.status = 500

\* C20: when a statement of a relational write operation fails, the operation
\* answers with an error and the relational store is as it was before the request.
C20_NoPartialCommit ==
    [][(resp'.mysqlFailed /\ resp'.op \in {"create_person", "delete_event"})
          => (resp'.status = 500 /\ UNCHANGED relVars)]_vars

\* C21: a request holds at most one pool connection at a time and has returned
\* every connection it acquired when it ends, whatever its exit path.
C21_ConnectionsReturned ==
    resp.op \in {"get_events_by_type", "get_person_by_id_resolver",
                 "get_comprehensive_event_summary"}
      => (resp.connsHeld <= 1 /\ resp.connsOut = 0)

\* C22: a request that meets the missing VolunteerID column succeeds through the
\* fallback and reports no volunteer id; the mismatch never becomes an error.
C22_SchemaFallback ==
    resp.schemaMismatch => (resp.status = 200 /\ resp.volunteers = 0)

\* The result dictionary of the summary built from the three sections' data; the
\* dataSources manifest is the same literal in every response.
SummaryResult(total, attendees, leaders, volunteers, check_in_data, event_notes) ==
    [registrations |-> [total |-> total, attendees |-> attendees,
                        leaders |-> leaders, volunteers |-> volunteers],
     liveCheckIns |-> [count |-> check_in_data.count,
                       students |-> check_in_data.students, source |-> "Redis"],
     notes |-> [count |-> Cardinality(event_notes), source |-> "MongoDB"],
     summary |-> [totalRegistered |-> total,
                  totalCheckedIn |-> check_in_data.count,
                  attendanceRate |-> AttendanceRate(check_in_data.count, total),
                  notesCount |-> Cardinality(event_notes)],
     dataSources |-> [eventInfo |-> "MySQL", registrations |-> "MySQL",
                      liveCheckIns |-> "Redis", notes |-> "MongoDB"]]

\* The result dictionary the last reply carried.
ResultOf(r) ==
    [registrations |-> [total |-> r.total, attendees |-> r.attendees,
                        leaders |-> r.leaders, volunteers |-> r.volunteers],
     liveCheckIns |-> [count |-> r.liveCount, students |-> r.students,
                       source |-> "Redis"],
     notes |-> [count |-> r.notesCount, source |-> "MongoDB"],
     summary |-> [totalRegistered |-> r.total, totalCheckedIn |-> r.liveCount,
                  attendanceRate |-> r.rate, notesCount |-> r.notesCount],
     dataSources |-> [eventInfo |-> "MySQL", registrations |-> "MySQL",
                      liveCheckIns |-> "Redis", notes |-> "MongoDB"]]

\* C23: a summary returned after an ephemeral-store failure is the summary the
\* same relational state gives for an empty checked-in set, and a summary
\* returned after a document-store failure is the one it gives for an event
\* without notes; nothing in the result tells failed from absent.
C23_FailureLooksLikeAbsence ==
    (IsSummary /\ resp.status = 200) =>
        LET e == resp.eventId
            seen == [count |-> resp.liveCount, students |-> resp.students]
            absent == CheckInData({}, checkInTimes[e], "none")
            found == {n \in eventNotes : n.eventId = e /\ ~resp.mongoFailed}
        IN  /\ resp.redisFailed =>
                ResultOf(resp) = SummaryResult(resp.total, resp.attendees,
                                               resp.leaders, resp.volunteers,
                                               absent, found)
            /\ resp.mongoFailed =>
                ResultOf(resp) = SummaryResult(resp.total, resp.attendees,
                                               resp.leaders, resp.volunteers,
                                               seen, {})

\* C23 witness: a summary returned after a Redis failure for an event that has a
\* registration and a checked-in person, and one returned after a MongoDB failure
\* for an event that has a note.
C23_Witness ==
    /\ IsSummary /\ resp.status = 200
    /\ resp.redisFailed /\ resp.mongoFailed
    /\ resp.total > 0
    /\ checkedIn[resp.eventId] \cap Person # {}
    /\ NotesOf(resp.eventId) # {}

\* C24: DELETE /notes/{note_id} with the id of an eventNotes document succeeds
\* and removes the document from the collection.
C24_EventNoteDeletable ==
    [][(resp'.op \in {"delete_note_by_id", "delete_event_note"}
        /\ resp'.id \in Ids(eventNotes))
          => (resp'.status = 200 /\ resp'.id \notin Ids(eventNotes'))]_vars

\* C25: the GraphQL summary asked right after the REST summary of the same event,
\* on the same stores and with the same store failures, fails exactly when the
\* REST summary failed and otherwise reports the same counts and rate.
C25_SurfacesEquivalent ==
    [][(/\ resp.op = "get_comprehensive_event_summary"
        /\ resp'.op = "get_comprehensive_event_summary_resolver"
        /\ resp'.eventId = resp.eventId
        /\ resp'.redisFailed = resp.redisFailed
        /\ resp'.mongoFailed = resp.mongoFailed)
          => /\ (resp'.status = 200) = (resp.status = 200)
             /\ resp.status = 200 =>
                  /\ resp'.total = resp.total
                  /\ resp'.attendees = resp.attendees
                  /\ resp'.leaders = resp.leaders
                  /\ resp'.volunteers = resp.volunteers
                  /\ resp'.liveCount = resp.liveCount
                  /\ resp'.notesCount = resp.notesCount
                  /\ resp'.rate = resp.rate]_vars

PairConsistent(e, p) == (p \in checkedIn[e]) <=> (checkInTimes[e][p] # NoTime)

\* C27: in every quiescent state the keys of each event's timestamp map are the
\* members of its checked-in set, whatever the interleaving of the check-ins and
\* check-outs of one pair (the store not failing).
C27_QuiescentConsistency ==
    roleReq = {} => \A e \in EventIds, p \in PersonIds : PairConsistent(e, p)

\* C27 as amended: a check-in or check-out whose two Redis commands run with no
\* command of another request between them leaves its person in the set exactly
\* when the map has a timestamp for that person.
C27_UninterruptedConsistency ==
    [][(/\ resp'.op \in {"checkin_person", "checkout_person"}
        /\ resp'.status \in {200, 404}
        /\ resp'.personId \in Person
        /\ roleReq' = roleReq)
          => ((resp'.personId \in checkedIn'[resp'.eventId])
              <=> (checkInTimes'[resp'.eventId][resp'.personId] # NoTime))]_vars

\* C27 witness: a check-out has removed the person while another request of the
\* pair is between its two Redis commands, and the set and the map agree.
C27_Witness ==
    /\ resp.op = "checkout_person" /\ resp.status = 200
    /\ resp.redisCalls = 2
    /\ roleReq # {}
    /\ PairConsistent(resp.eventId, resp.personId)

\* C28: an event id whose checked-in set or timestamp map is not empty has an
\* Event row.
C28_CheckInStateHasEvent ==
    \A e \in EventIds :
        (checkedIn[e] # {} \/ \E p \in PersonIds : checkInTimes[e][p] # NoTime)
            => e \in Event

\* C29: no two documents of eventTypes have the same event_type value.
C29_EventTypeNamesUnique ==
    \A a \in eventTypes, b \in eventTypes : a.event_type = b.event_type => a = b

GroupCreated == IsGroupCreation /\ resp.status = 200

\* C30: manually assigned ids are never reused.  A row of SmallGroupMember names
\* a group that existed when the row was written (add_member_to_group answers
\* 404 otherwise), so every smallGroupId in the table is an id that an earlier
\* creation returned; the id a creation returns is strictly greater than each
\* of them, whether or not the group still exists.
C30_IdsNeverReused ==
    [][(resp'.op \in {"create_small_group", "create_small_group_resolver"}
          /\ resp'.status = 200)
          => \A m \in SmallGroupMember : resp'.id > m.smallGroupId]_vars

\* C30, amended: the id a creation returns is strictly greater than the id of
\* every row the table holds when the creation runs, deleted rows not counted.
C30_IdsAboveRemainingRows ==
    [][(resp'.op \in {"create_small_group", "create_small_group_resolver"}
          /\ resp'.status = 200)
          => /\ \A g \in SmallGroup : resp'.id > g
             /\ resp'.id \in SmallGroup']_vars

\* C30 witness: a creation returns an id that a member row already refers to, the
\* id of a group that was created, given a member and deleted before.
C30_Witness ==
    /\ GroupCreated
    /\ \E m \in SmallGroupMember : m.smallGroupId = resp.id
    /\ \E g \in SmallGroup : g < resp.id

=============================================================================
